---- MODULE Spec2Model ----
(***************************************************************************)
(* Model of the ACME order / authorization / challenge state machine of    *)
(* django-ca as driven by the tasks of django_ca/tasks.py                   *)
(* (acme_validate_challenge, acme_issue_certificate).                       *)
(*                                                                         *)
(* The database is modelled as the committed rows `db`; every task runs in *)
(* its own transaction (@transaction.atomic) whose pending writes are held *)
(* in `tx` until the task commits.  Reads see committed rows (READ         *)
(* COMMITTED) overlaid with the transaction's own writes; a row written by *)
(* an open transaction is locked against other writers.  The ORM objects   *)
(* a task has loaded are the in-memory copies `loc`; Model.save() writes   *)
(* the whole in-memory copy back.                                          *)
(***************************************************************************)
EXTENDS Integers, Sequences, FiniteSets, TLC

----------------------------------------------------------------------------
(* Bounds *)

MaxNow == 1
MaxBody == 3
MaxNotAfter == 4

----------------------------------------------------------------------------
(* Fixture: one account with one order for two identifiers, hence two      *)
(* authorizations with two challenges each, and two task workers that run  *)
(* tasks concurrently.                                                     *)

Auths == {1, 2}
Challenges == {1, 2, 3, 4}
Workers == {1, 2}

\* A primary key that matches no row
NoSuchPk == 0

ChAuth(c) == ((c - 1) \div 2) + 1

TYPE_HTTP_01 == "http-01"
TYPE_DNS_01 == "dns-01"
TYPE_TLS_ALPN_01 == "tls-alpn-01"

\* every authorization has an http-01 challenge; the second challenge is
\* dns-01 for the first authorization and the (unsupported) tls-alpn-01 for
\* the second
ChType(c) ==
    IF c % 2 = 1 THEN TYPE_HTTP_01
    ELSE IF c = 2 THEN TYPE_DNS_01
    ELSE TYPE_TLS_ALPN_01

STATUS_PENDING == "pending"
STATUS_PROCESSING == "processing"
STATUS_VALID == "valid"
STATUS_INVALID == "invalid"
STATUS_READY == "ready"
STATUS_DEACTIVATED == "deactivated"

HTTP_OK == 200
HTTP_NOT_FOUND == 404

\* the key authorization the http-01 responder has to serve
Expected == <<1>>
Bytes == {1, 2, 3}
Bodies == UNION {[1..n -> Bytes] : n \in 0..MaxBody}

----------------------------------------------------------------------------
(* Row keys *)

ChKey(c) == <<"challenge", c>>
AuthKey(a) == <<"auth", a>>
OrderKey == <<"order", 1>>
AccountKey == <<"account", 1>>
AcmeCertKey == <<"acme_cert", 1>>
CertKey(w) == <<"certificate", w>>

Keys ==
    {ChKey(c) : c \in Challenges} \cup {AuthKey(a) : a \in Auths}
        \cup {OrderKey, AccountKey, AcmeCertKey} \cup {CertKey(w) : w \in Workers}

ROW_ABSENT == "absent"
CERT_UNLINKED == "unlinked"
CERT_LINKED == "linked"
ROW_PRESENT == "present"

NoTx == [k \in {} |-> "-"]
NoLoc == [challenge |-> "-", auth |-> "-", order |-> "-", cert |-> "-",
          challenge_valid |-> FALSE]
NoOutcome == [task |-> "none", how |-> "none"]

\* the contact of the account fixture and the one the update tests send
ACCOUNT_ONE_CONTACT == "mailto:one@example.com"
UpdatedContact == "mailto:user.updated@example.com"
NoContact == "-"
NoMessage == [status |-> "-", contact |-> NoContact,
              terms_of_service_agreed |-> FALSE]
NoResponse == [message |-> NoMessage, problem |-> "-"]
AccountFixture == [contact |-> ACCOUNT_ONE_CONTACT, terms_of_service_agreed |-> TRUE]

\* no http-01 request is looked at on its own
NoProbe == [pc |-> "none"]

\* no Profile.create_cert call is in progress
NoObject == "-"
NoCall == [pc |-> "none"]

VARIABLES
    acmeEnabled,    \* ca_settings.CA_ENABLE_ACME
    now,            \* timezone.now()
    orderExpires,   \* AcmeOrder.expires
    db,             \* committed rows: key -> status
    tx,             \* per worker: uncommitted writes of the open transaction
    pc,             \* per worker: position in the running task
    arg,            \* per worker: primary key the task was invoked with
    loc,            \* per worker: in-memory ORM objects of the task
    outcome,        \* how the most recently finished task invocation ended
    account,        \* AcmeAccount.contact and .terms_of_service_agreed
    response,       \* the last account update message and the answer to it
    profile,        \* the Profile instance (self of Profile.create_cert)
    ca,             \* the CertificateAuthority passed to Profile.create_cert
    call,           \* arguments, locals and effects of a Profile.create_cert call
    probe           \* one http-01 request: the responder's answer and the verdict

acmeVars == <<acmeEnabled, now, orderExpires, db, tx, pc, arg, loc, outcome>>
accountVars == <<account, response>>
profileVars == <<profile, ca, call>>
vars == <<acmeVars, accountVars, profileVars, probe>>

----------------------------------------------------------------------------
(* Transactions *)

\* a row is locked while an open transaction has written it
Locked(k) == \E w \in Workers : k \in DOMAIN tx[w]
LockedByOther(w, k) == \E v \in Workers \ {w} : k \in DOMAIN tx[v]

\* Model.save() as it would act outside an atomic block: committed at once
SaveAutocommit(w, k, val) ==
    /\ ~LockedByOther(w, k)
    /\ db' = [db EXCEPT ![k] = val]
    /\ tx' = tx

\* Model.save() inside the atomic block: the write stays in the transaction
Save(w, k, val) ==
    /\ ~LockedByOther(w, k)
    /\ tx' = [tx EXCEPT ![w] = (k :> val) @@ @]
    /\ db' = db

\* the last Model.save() of a task, after which the task returns and the
\* atomic block commits: all writes become visible at once
SaveCommit(w, k, val) ==
    /\ ~LockedByOther(w, k)
    /\ db' = ((k :> val) @@ tx[w]) @@ db
    /\ tx' = [tx EXCEPT ![w] = NoTx]

\* an exception that would leave the writes made so far in place
RollbackKeeps(w) ==
    /\ db' = tx[w] @@ db
    /\ tx' = [tx EXCEPT ![w] = NoTx]

\* leaving the atomic block by an exception (or losing the connection):
\* all writes are discarded
RollbackTx(w) ==
    /\ db' = db
    /\ tx' = [tx EXCEPT ![w] = NoTx]

Finish(w, task, how) ==
    /\ pc' = [pc EXCEPT ![w] = "idle"]
    /\ arg' = [arg EXCEPT ![w] = NoSuchPk]
    /\ loc' = [loc EXCEPT ![w] = NoLoc]
    /\ outcome' = [task |-> task, how |-> how]

----------------------------------------------------------------------------
(* usable properties of the ACME models.  An ACME certificate is usable    *)
(* from the moment its order is ready until the certificate is issued; the *)
(* finalize request moves the ready order to processing.                   *)

AccountUsable(rows) == rows[AccountKey] = STATUS_VALID

OrderUsable(rows) ==
    /\ rows[OrderKey] # STATUS_INVALID
    /\ orderExpires > now
    /\ AccountUsable(rows)

AuthUsable(rows, a) ==
    /\ rows[AuthKey(a)] = STATUS_PENDING
    /\ OrderUsable(rows)

AcmeCertUsable(rows) ==
    /\ rows[AcmeCertKey] = CERT_UNLINKED
    /\ rows[OrderKey] \in {STATUS_READY, STATUS_PROCESSING}

----------------------------------------------------------------------------

Init ==
    /\ acmeEnabled \in BOOLEAN
    /\ now = 0
    /\ orderExpires = MaxNow
    /\ db = [k \in Keys |->
                IF k = AccountKey THEN STATUS_VALID
                ELSE IF k = AcmeCertKey \/ k[1] = "certificate" THEN ROW_ABSENT
                ELSE STATUS_PENDING]
    /\ tx = [w \in Workers |-> NoTx]
    /\ pc = [w \in Workers |-> "idle"]
    /\ arg = [w \in Workers |-> NoSuchPk]
    /\ loc = [w \in Workers |-> NoLoc]
    /\ outcome = NoOutcome
    /\ account = AccountFixture
    /\ response = NoResponse
    /\ profile = NoObject
    /\ ca = NoObject
    /\ call = NoCall
    /\ probe = NoProbe

----------------------------------------------------------------------------
(* Requests handled by the ACME views and the passing of time *)

\* the client asks the server to validate a challenge
Trigger(c) ==
    /\ acmeEnabled
    /\ db[ChKey(c)] = STATUS_PENDING
    /\ ~Locked(ChKey(c))
    /\ db' = [db EXCEPT ![ChKey(c)] = STATUS_PROCESSING]
    /\ UNCHANGED <<accountVars, profileVars, probe, acmeEnabled, now, orderExpires, tx, pc, arg, loc, outcome>>

\* the client finalizes a ready order
Finalize ==
    /\ acmeEnabled
    /\ AccountUsable(db)
    /\ db[OrderKey] = STATUS_READY
    /\ db[AcmeCertKey] = ROW_ABSENT
    /\ ~Locked(OrderKey)
    /\ db' = [db EXCEPT ![OrderKey] = STATUS_PROCESSING,
                        ![AcmeCertKey] = CERT_UNLINKED]
    /\ UNCHANGED <<accountVars, profileVars, probe, acmeEnabled, now, orderExpires, tx, pc, arg, loc, outcome>>

OrderTerminal(status) == status \in {STATUS_VALID, STATUS_INVALID}

\* a deactivation that would not cancel the order
DeactivatedRowsKeepOrder(rows) ==
    [k \in Keys |->
        IF k = AccountKey THEN STATUS_DEACTIVATED
        ELSE IF k[1] = "auth" /\ ~OrderTerminal(rows[OrderKey]) THEN STATUS_DEACTIVATED
        ELSE rows[k]]

\* the rows after the deactivation of the account
DeactivatedRows(rows) ==
    [k \in Keys |->
        IF k = AccountKey THEN STATUS_DEACTIVATED
        ELSE IF k = OrderKey /\ ~OrderTerminal(rows[OrderKey]) THEN STATUS_INVALID
        ELSE IF k[1] = "auth" /\ ~OrderTerminal(rows[OrderKey]) THEN STATUS_DEACTIVATED
        ELSE rows[k]]

\* the client deactivates its account
Deactivate ==
    /\ acmeEnabled
    /\ db[AccountKey] = STATUS_VALID
    /\ \A k \in {AccountKey, OrderKey} \cup {AuthKey(a) : a \in Auths} : ~Locked(k)
    /\ db' = DeactivatedRows(db)
    /\ UNCHANGED <<accountVars, profileVars, probe, acmeEnabled, now, orderExpires, tx, pc, arg, loc, outcome>>

Tick ==
    /\ now < MaxNow
    /\ now' = now + 1
    /\ UNCHANGED <<accountVars, profileVars, probe, acmeEnabled, orderExpires, db, tx, pc, arg, loc, outcome>>

\* the processes are restarted with a changed CA_ENABLE_ACME setting
Reconfigure ==
    /\ \A w \in Workers : pc[w] = "idle"
    /\ acmeEnabled' = ~acmeEnabled
    /\ UNCHANGED <<accountVars, profileVars, probe, now, orderExpires, db, tx, pc, arg, loc, outcome>>

----------------------------------------------------------------------------
(* acme_validate_challenge *)

\* the early returns without the one on the authorization
ValidateRejectsLax(rows, pk) ==
    \/ ~acmeEnabled
    \/ pk \notin Challenges
    \/ rows[ChKey(pk)] # STATUS_PROCESSING

\* the early returns of the task
ValidateRejects(rows, pk) ==
    \/ ~acmeEnabled
    \/ pk \notin Challenges
    \/ rows[ChKey(pk)] # STATUS_PROCESSING
    \/ ~AuthUsable(rows, ChAuth(pk))

ValidateStart(w, pk) ==
    /\ pc[w] = "idle"
    /\ IF ValidateRejects(db, pk)
       THEN Finish(w, "validate", "rejected")
       ELSE /\ pc' = [pc EXCEPT ![w] = "probe"]
            /\ arg' = [arg EXCEPT ![w] = pk]
            /\ loc' = [loc EXCEPT ![w] = [challenge |-> db[ChKey(pk)],
                                          auth |-> db[AuthKey(ChAuth(pk))],
                                          order |-> db[OrderKey],
                                          cert |-> "-",
                                          challenge_valid |-> FALSE]]
            /\ outcome' = outcome
    /\ UNCHANGED <<accountVars, profileVars, probe, acmeEnabled, now, orderExpires, db, tx>>

Min(a, b) == IF a < b THEN a ELSE b

\* a read of one byte less, len(expected) bytes
RawReadExpectedLen(body, n) == SubSeq(body, 1, Min(n - 1, Len(body)))

\* response.raw.read(n): at most n bytes of the body
RawRead(body, n) == SubSeq(body, 1, Min(n, Len(body)))

Http01Valid(status, body) ==
    /\ status = HTTP_OK
    /\ RawRead(body, Len(Expected) + 1) = Expected

\* a transition that would leave the order alone when the challenge fails
DecidedNoCascade(l, a, challenge_valid, rows) ==
    IF challenge_valid
    THEN [l EXCEPT !.challenge_valid = TRUE,
                   !.challenge = STATUS_VALID,
                   !.auth = STATUS_VALID,
                   !.order = IF \A b \in Auths \ {a} : rows[AuthKey(b)] = STATUS_VALID
                             THEN STATUS_READY ELSE @]
    ELSE [l EXCEPT !.challenge = STATUS_INVALID,
                   !.auth = STATUS_INVALID]

\* a transition that would not query the other authorizations
DecidedAlwaysReady(l, a, challenge_valid, rows) ==
    IF challenge_valid
    THEN [l EXCEPT !.challenge_valid = TRUE,
                   !.challenge = STATUS_VALID,
                   !.auth = STATUS_VALID,
                   !.order = STATUS_READY]
    ELSE [l EXCEPT !.challenge = STATUS_INVALID,
                   !.auth = STATUS_INVALID,
                   !.order = STATUS_INVALID]

\* the in-memory objects after the status transition
Decided(l, a, challenge_valid, rows) ==
    IF challenge_valid
    THEN [l EXCEPT !.challenge_valid = TRUE,
                   !.challenge = STATUS_VALID,
                   !.auth = STATUS_VALID,
                   !.order = IF \A b \in Auths \ {a} : rows[AuthKey(b)] = STATUS_VALID
                             THEN STATUS_READY ELSE @]
    ELSE [l EXCEPT !.challenge = STATUS_INVALID,
                   !.auth = STATUS_INVALID,
                   !.order = STATUS_INVALID]

\* the status transition and challenge.save()
Decide(w, challenge_valid) ==
    /\ loc' = [loc EXCEPT ![w] = Decided(@, ChAuth(arg[w]), challenge_valid, tx[w] @@ db)]
    /\ Save(w, ChKey(arg[w]), loc'[w].challenge)
    /\ pc' = [pc EXCEPT ![w] = "save_auth"]
    /\ UNCHANGED <<accountVars, profileVars, probe, acmeEnabled, now, orderExpires, arg, outcome>>

\* the responder answers
ProbeHttp(w) ==
    /\ pc[w] = "probe"
    /\ ChType(arg[w]) = TYPE_HTTP_01
    /\ \E status \in {HTTP_OK, HTTP_NOT_FOUND}, body \in Bodies :
          Decide(w, Http01Valid(status, body))

\* requests.get() or the read raises: caught and logged
ProbeHttpError(w) ==
    /\ pc[w] = "probe"
    /\ ChType(arg[w]) = TYPE_HTTP_01
    /\ Decide(w, FALSE)

ProbeDns(w) ==
    /\ pc[w] = "probe"
    /\ ChType(arg[w]) = TYPE_DNS_01
    /\ \E result \in BOOLEAN : Decide(w, result)

\* validate_dns_01() raises: nothing catches it, the exception leaves the
\* task and the atomic block rolls back
ProbeDnsError(w) ==
    /\ pc[w] = "probe"
    /\ ChType(arg[w]) = TYPE_DNS_01
    /\ RollbackTx(w)
    /\ Finish(w, "validate", "probe raised")
    /\ UNCHANGED <<accountVars, profileVars, probe, acmeEnabled, now, orderExpires>>

ProbeUnsupported(w) ==
    /\ pc[w] = "probe"
    /\ ChType(arg[w]) \notin {TYPE_HTTP_01, TYPE_DNS_01}
    /\ Decide(w, FALSE)

SaveAuth(w) ==
    /\ pc[w] = "save_auth"
    /\ Save(w, AuthKey(ChAuth(arg[w])), loc[w].auth)
    /\ pc' = [pc EXCEPT ![w] = "save_order"]
    /\ UNCHANGED <<accountVars, profileVars, probe, acmeEnabled, now, orderExpires, arg, loc, outcome>>

\* challenge.auth.order.save(); the task returns
SaveOrder(w) ==
    /\ pc[w] = "save_order"
    /\ SaveCommit(w, OrderKey, loc[w].order)
    /\ Finish(w, "validate", "returned")
    /\ UNCHANGED <<accountVars, profileVars, probe, acmeEnabled, now, orderExpires>>

ValidatePcs == {"probe", "save_auth", "save_order"}
IssuePcs == {"issuing", "save_order_issue", "save_acme_cert"}
Task(w) == IF pc[w] \in ValidatePcs THEN "validate" ELSE "issue"

\* an exception escapes the task (a failing query, a lost connection, a
\* killed worker): the atomic block rolls back
Abort(w) ==
    /\ pc[w] # "idle"
    /\ RollbackTx(w)
    /\ Finish(w, Task(w), "raised")
    /\ UNCHANGED <<accountVars, profileVars, probe, acmeEnabled, now, orderExpires>>

----------------------------------------------------------------------------
(* acme_issue_certificate *)

AcmeCertPk == 1

\* the early returns without the one on acme_cert.usable
IssueRejectsLax(rows, pk) ==
    \/ ~acmeEnabled
    \/ pk # AcmeCertPk
    \/ rows[AcmeCertKey] = ROW_ABSENT

\* the early returns of the task
IssueRejects(rows, pk) ==
    \/ ~acmeEnabled
    \/ pk # AcmeCertPk
    \/ rows[AcmeCertKey] = ROW_ABSENT
    \/ ~AcmeCertUsable(rows)

IssueStart(w, pk) ==
    /\ pc[w] = "idle"
    /\ IF IssueRejects(db, pk)
       THEN Finish(w, "issue", "rejected")
       ELSE /\ pc' = [pc EXCEPT ![w] = "issuing"]
            /\ arg' = [arg EXCEPT ![w] = pk]
            /\ loc' = [loc EXCEPT ![w] = [challenge |-> "-", auth |-> "-",
                                          order |-> db[OrderKey],
                                          cert |-> db[AcmeCertKey],
                                          challenge_valid |-> FALSE]]
            /\ outcome' = outcome
    /\ UNCHANGED <<accountVars, profileVars, probe, acmeEnabled, now, orderExpires, db, tx>>

\* parse_csr() and create_cert() succeed: the certificate row is created
IssueCreate(w) ==
    /\ pc[w] = "issuing"
    /\ Save(w, CertKey(w), ROW_PRESENT)
    /\ loc' = [loc EXCEPT ![w].cert = CERT_LINKED, ![w].order = STATUS_VALID]
    /\ pc' = [pc EXCEPT ![w] = "save_order_issue"]
    /\ UNCHANGED <<accountVars, profileVars, probe, acmeEnabled, now, orderExpires, arg, outcome>>

\* parse_csr() or create_cert() raises
IssueRaise(w) ==
    /\ pc[w] = "issuing"
    /\ RollbackTx(w)
    /\ Finish(w, "issue", "raised")
    /\ UNCHANGED <<accountVars, profileVars, probe, acmeEnabled, now, orderExpires>>

IssueSaveOrder(w) ==
    /\ pc[w] = "save_order_issue"
    /\ Save(w, OrderKey, loc[w].order)
    /\ pc' = [pc EXCEPT ![w] = "save_acme_cert"]
    /\ UNCHANGED <<accountVars, profileVars, probe, acmeEnabled, now, orderExpires, arg, loc, outcome>>

\* acme_cert.save(); the task returns
IssueSaveCert(w) ==
    /\ pc[w] = "save_acme_cert"
    /\ SaveCommit(w, AcmeCertKey, loc[w].cert)
    /\ Finish(w, "issue", "returned")
    /\ UNCHANGED <<accountVars, profileVars, probe, acmeEnabled, now, orderExpires>>

----------------------------------------------------------------------------

Next ==
    \/ \E c \in Challenges : Trigger(c)
    \/ Finalize
    \/ Deactivate
    \/ Tick
    \/ Reconfigure
    \/ \E w \in Workers, pk \in Challenges \cup {NoSuchPk} : ValidateStart(w, pk)
    \/ \E w \in Workers : ProbeHttp(w)
    \/ \E w \in Workers : ProbeHttpError(w)
    \/ \E w \in Workers : ProbeDns(w)
    \/ \E w \in Workers : ProbeDnsError(w)
    \/ \E w \in Workers : ProbeUnsupported(w)
    \/ \E w \in Workers : SaveAuth(w)
    \/ \E w \in Workers : SaveOrder(w)
    \/ \E w \in Workers : Abort(w)
    \/ \E w \in Workers, pk \in {AcmeCertPk, NoSuchPk} : IssueStart(w, pk)
    \/ \E w \in Workers : IssueCreate(w)
    \/ \E w \in Workers : IssueRaise(w)
    \/ \E w \in Workers : IssueSaveOrder(w)
    \/ \E w \in Workers : IssueSaveCert(w)

Spec == Init /\ [][Next]_vars

TypeOK ==
    /\ acmeEnabled \in BOOLEAN
    /\ now \in 0..MaxNow
    /\ DOMAIN db = Keys
    /\ \A w \in Workers : DOMAIN tx[w] \subseteq Keys

----------------------------------------------------------------------------
(* Properties of acme_validate_challenge *)

\* worker w takes the step that evaluates the probe and transitions the
\* in-memory objects
DecideStep(w) == pc[w] = "probe" /\ pc'[w] = "save_auth"

\* worker w takes the step that commits a validation run
ValidateCommitStep(w) ==
    /\ pc[w] = "save_order"
    /\ pc'[w] = "idle"
    /\ outcome' = [task |-> "validate", how |-> "returned"]

OthersValid(a) == \A b \in Auths \ {a} : db[AuthKey(b)] = STATUS_VALID

\* C1: a run whose probe succeeds makes the challenge valid and the
\* authorization valid; it makes the order ready if every other authorization
\* of the order is valid, and otherwise leaves the order pending; these
\* statuses are what the run persists.
C1_ValidCascade ==
    [][\A w \in Workers :
        /\ (DecideStep(w) /\ loc'[w].challenge_valid) =>
              /\ loc'[w].challenge = STATUS_VALID
              /\ loc'[w].auth = STATUS_VALID
              /\ OthersValid(ChAuth(arg[w])) => loc'[w].order = STATUS_READY
              /\ ~OthersValid(ChAuth(arg[w])) => loc'[w].order = STATUS_PENDING
        /\ (ValidateCommitStep(w) /\ loc[w].challenge_valid) =>
              /\ db'[ChKey(arg[w])] = STATUS_VALID
              /\ db'[AuthKey(ChAuth(arg[w]))] = STATUS_VALID
              /\ db'[OrderKey] = loc[w].order
              /\ db'[OrderKey] \in {STATUS_READY, STATUS_PENDING}
      ]_vars

\* the last authorization was validated and the order became ready
C1_Witness ==
    /\ outcome = [task |-> "validate", how |-> "returned"]
    /\ db[OrderKey] = STATUS_READY
    /\ \A a \in Auths : db[AuthKey(a)] = STATUS_VALID
    /\ \E c \in Challenges : db[ChKey(c)] = STATUS_VALID

\* C2: a run whose probe does not succeed makes the challenge, its
\* authorization and the order invalid, and persists the three together,
\* whatever the status of the other authorizations.
C2_InvalidCascade ==
    [][\A w \in Workers :
        /\ (DecideStep(w) /\ ~loc'[w].challenge_valid) =>
              /\ loc'[w].challenge = STATUS_INVALID
              /\ loc'[w].auth = STATUS_INVALID
              /\ loc'[w].order = STATUS_INVALID
        /\ (ValidateCommitStep(w) /\ ~loc[w].challenge_valid) =>
              /\ db'[ChKey(arg[w])] = STATUS_INVALID
              /\ db'[AuthKey(ChAuth(arg[w]))] = STATUS_INVALID
              /\ db'[OrderKey] = STATUS_INVALID
      ]_vars

\* a failed challenge invalidated the order although another authorization
\* is valid
C2_Witness ==
    /\ outcome = [task |-> "validate", how |-> "returned"]
    /\ db[OrderKey] = STATUS_INVALID
    /\ \E c \in Challenges :
          /\ db[ChKey(c)] = STATUS_INVALID
          /\ db[AuthKey(ChAuth(c))] = STATUS_INVALID
          /\ \E b \in Auths \ {ChAuth(c)} : db[AuthKey(b)] = STATUS_VALID

\* C3: a run goes past its checks only if ACME is enabled, the challenge
\* exists and is processing and its authorization is usable; a run that is
\* turned away changes no row, leaves no write pending and raises nothing.
C3_RejectedIsNoOp ==
    [][/\ \A w \in Workers :
            (pc[w] = "idle" /\ pc'[w] = "probe") =>
                /\ acmeEnabled
                /\ arg'[w] \in Challenges
                /\ db[ChKey(arg'[w])] = STATUS_PROCESSING
                /\ AuthUsable(db, ChAuth(arg'[w]))
       /\ (pc' = pc /\ outcome' # outcome /\ outcome'.task = "validate") =>
                /\ outcome'.how = "rejected"
                /\ db' = db
                /\ tx' = tx
      ]_vars

\* a run on a challenge whose authorization a sibling challenge has already
\* decided was turned away and the challenge is still processing
C3_Witness ==
    /\ outcome = [task |-> "validate", how |-> "rejected"]
    /\ acmeEnabled
    /\ \A w \in Workers : pc[w] = "idle"
    /\ \E c \in Challenges :
          /\ db[ChKey(c)] = STATUS_PROCESSING
          /\ db[AuthKey(ChAuth(c))] = STATUS_VALID

\* C4: the committed rows change in no step of a validation run except the
\* one that ends it normally, and that step writes challenge, authorization
\* and order together.
C4_AtomicPersistence ==
    [][\A w \in Workers :
        (pc[w] \in ValidatePcs /\ pc'[w] # pc[w]) =>
            \/ db' = db
            \/ /\ ValidateCommitStep(w)
               /\ db'[ChKey(arg[w])] = loc[w].challenge
               /\ db'[AuthKey(ChAuth(arg[w]))] = loc[w].auth
               /\ db'[OrderKey] = loc[w].order
      ]_vars

\* a run has saved the challenge and the authorization but not yet the
\* order, and the committed rows are still those from before the run
C4_Witness ==
    \E w \in Workers :
        /\ pc[w] = "save_order"
        /\ loc[w].challenge = STATUS_VALID
        /\ db[ChKey(arg[w])] = STATUS_PROCESSING
        /\ db[AuthKey(ChAuth(arg[w]))] = STATUS_PENDING
        /\ db[OrderKey] = STATUS_PENDING

\* C5: a run that commits after a sibling challenge has decided the
\* authorization changes neither the authorization nor the order.
C5_FirstRunDecides ==
    [][\A w \in Workers :
        (/\ ValidateCommitStep(w)
         /\ db[ChKey(arg[w])] = STATUS_PROCESSING
         /\ db[AuthKey(ChAuth(arg[w]))] \in {STATUS_VALID, STATUS_INVALID}) =>
            /\ db'[AuthKey(ChAuth(arg[w]))] = db[AuthKey(ChAuth(arg[w]))]
            /\ db'[OrderKey] = db[OrderKey]
      ]_vars

\* C6: when every authorization of the order is valid and no task is in
\* flight, the order is not pending any more.
C6_ReadyWhenAllValid ==
    ((\A w \in Workers : pc[w] = "idle")
        /\ (\A a \in Auths : db[AuthKey(a)] = STATUS_VALID))
    => db[OrderKey] # STATUS_PENDING

----------------------------------------------------------------------------
(* Properties of acme_issue_certificate *)

IssueCommitStep(w) ==
    /\ pc[w] = "save_acme_cert"
    /\ pc'[w] = "idle"
    /\ outcome' = [task |-> "issue", how |-> "returned"]

IssueRaiseStep(w) ==
    /\ pc[w] \in IssuePcs
    /\ pc'[w] = "idle"
    /\ outcome' = [task |-> "issue", how |-> "raised"]

\* C7: a run goes past its checks only if ACME is enabled and the ACME
\* certificate row exists and is usable; a run that is turned away changes
\* nothing; a run that succeeds makes the order valid and links the issued
\* certificate.
C7_IssueContract ==
    [][/\ \A w \in Workers :
            (pc[w] = "idle" /\ pc'[w] = "issuing") =>
                /\ acmeEnabled
                /\ arg'[w] = AcmeCertPk
                /\ db[AcmeCertKey] # ROW_ABSENT
                /\ AcmeCertUsable(db)
       /\ (pc' = pc /\ outcome' # outcome /\ outcome'.task = "issue") =>
                /\ outcome'.how = "rejected"
                /\ db' = db
                /\ tx' = tx
       /\ \A w \in Workers :
            IssueCommitStep(w) =>
                /\ db'[OrderKey] = STATUS_VALID
                /\ db'[AcmeCertKey] = CERT_LINKED
                /\ db'[CertKey(w)] = ROW_PRESENT
      ]_vars

C7_Witness ==
    /\ outcome = [task |-> "issue", how |-> "returned"]
    /\ db[OrderKey] = STATUS_VALID
    /\ db[AcmeCertKey] = CERT_LINKED
    /\ \E w \in Workers : db[CertKey(w)] = ROW_PRESENT

\* C8: no step of an issuance run other than the one that ends it normally
\* changes a committed row, in particular not the step in which it raises; a
\* certificate row exists only together with the link from the ACME
\* certificate row.
C8_NoPartialIssue ==
    /\ [][\A w \in Workers :
            (pc[w] \in IssuePcs /\ pc'[w] # pc[w] /\ ~IssueCommitStep(w)) => db' = db
         ]_vars
    /\ [](\A w \in Workers :
            db[CertKey(w)] = ROW_PRESENT => db[AcmeCertKey] = CERT_LINKED)

\* an issuance run raised after the certificate was created: the order is
\* still processing, there is no certificate row and no link
C8_Witness ==
    /\ outcome = [task |-> "issue", how |-> "raised"]
    /\ db[OrderKey] = STATUS_PROCESSING
    /\ db[AcmeCertKey] = CERT_UNLINKED
    /\ \A w \in Workers : db[CertKey(w)] = ROW_ABSENT /\ pc[w] = "idle"

\* C9: the order becomes valid only in the step in which an issuance run
\* links the certificate, and when an issuance run raises the order becomes
\* invalid.
C9_FailedIssueInvalidates ==
    [][/\ (db[OrderKey] # STATUS_VALID /\ db'[OrderKey] = STATUS_VALID) =>
              \E w \in Workers : IssueCommitStep(w) /\ db'[AcmeCertKey] = CERT_LINKED
       /\ \A w \in Workers : IssueRaiseStep(w) => db'[OrderKey] = STATUS_INVALID
      ]_vars

----------------------------------------------------------------------------
(* Properties of account deactivation *)

\* C10: the step that deactivates the account leaves the account unusable
\* and, if the order is not terminal, sets the order to invalid and every
\* authorization of the order to deactivated.
C10_DeactivationCascade ==
    [][(db[AccountKey] = STATUS_VALID /\ db'[AccountKey] # STATUS_VALID) =>
          /\ db'[AccountKey] = STATUS_DEACTIVATED
          /\ ~AccountUsable(db')
          /\ ~OrderTerminal(db[OrderKey]) =>
                /\ db'[OrderKey] = STATUS_INVALID
                /\ \A a \in Auths : db'[AuthKey(a)] = STATUS_DEACTIVATED
      ]_vars

\* the account was deactivated while the order was not terminal
C10_Witness ==
    /\ db[AccountKey] = STATUS_DEACTIVATED
    /\ db[OrderKey] = STATUS_INVALID
    /\ \A a \in Auths : db[AuthKey(a)] = STATUS_DEACTIVATED

----------------------------------------------------------------------------
(* The account update view (AcmeUpdateAccountView), as its tests in        *)
(* tests/acme/views/test_update_account.py pin it down.  A request is      *)
(* handled in one step.                                                    *)

\* the Registration messages the tests send: empty, contact only, status
\* only, status and contact, terms of service only
Messages ==
    {m \in [status : {"-", STATUS_DEACTIVATED},
            contact : {NoContact, UpdatedContact},
            terms_of_service_agreed : BOOLEAN] :
        m.terms_of_service_agreed => (m.status = "-" /\ m.contact = NoContact)}

\* a view that would also store the contact of a deactivation message
UpdatedAccountWithContact(acc, msg) ==
    IF msg.contact # NoContact THEN [acc EXCEPT !.contact = msg.contact]
    ELSE IF msg.terms_of_service_agreed
         THEN [acc EXCEPT !.terms_of_service_agreed = TRUE]
    ELSE acc

\* contact and terms_of_service_agreed of the account after the message
UpdatedAccount(acc, msg) ==
    IF msg.status = STATUS_DEACTIVATED THEN acc
    ELSE IF msg.contact # NoContact THEN [acc EXCEPT !.contact = msg.contact]
    ELSE IF msg.terms_of_service_agreed
         THEN [acc EXCEPT !.terms_of_service_agreed = TRUE]
    ELSE acc

\* the problem document the message is answered with, if any
UpdateProblem(msg) ==
    IF msg.status # STATUS_DEACTIVATED /\ msg.contact = NoContact
       /\ ~msg.terms_of_service_agreed
    THEN "malformed" ELSE "-"

UpdateAccount(msg) ==
    /\ acmeEnabled
    /\ db[AccountKey] = STATUS_VALID
    /\ \A k \in {AccountKey, OrderKey} \cup {AuthKey(a) : a \in Auths} : ~Locked(k)
    /\ account' = UpdatedAccount(account, msg)
    /\ db' = IF msg.status = STATUS_DEACTIVATED THEN DeactivatedRows(db) ELSE db
    /\ response' = [message |-> msg, problem |-> UpdateProblem(msg)]
    /\ UNCHANGED <<profileVars, probe, acmeEnabled, now, orderExpires, tx, pc, arg, loc, outcome>>

InitAccount ==
    /\ acmeEnabled \in BOOLEAN
    /\ now = 0
    /\ orderExpires = MaxNow
    /\ db = [k \in Keys |->
                IF k = AccountKey THEN STATUS_VALID
                ELSE IF k = AcmeCertKey \/ k[1] = "certificate" THEN ROW_ABSENT
                ELSE STATUS_PENDING]
    /\ tx = [w \in Workers |-> NoTx]
    /\ pc = [w \in Workers |-> "idle"]
    /\ arg = [w \in Workers |-> NoSuchPk]
    /\ loc = [w \in Workers |-> NoLoc]
    /\ outcome = NoOutcome
    /\ account \in [contact : {ACCOUNT_ONE_CONTACT}, terms_of_service_agreed : BOOLEAN]
    /\ response = NoResponse
    /\ profile = NoObject
    /\ ca = NoObject
    /\ call = NoCall
    /\ probe = NoProbe

NextAccount ==
    \/ \E msg \in Messages : UpdateAccount(msg)
    \/ \E c \in Challenges : Trigger(c)
    \/ Tick
    \/ Reconfigure

SpecAccount == InitAccount /\ [][NextAccount]_vars

----------------------------------------------------------------------------
(* Properties of the account update *)

PureContactUpdate(msg) ==
    /\ msg.contact # NoContact
    /\ account' = [account EXCEPT !.contact = msg.contact]
    /\ db' = db
    /\ response'.problem = "-"

PureDeactivation ==
    /\ db'[AccountKey] = STATUS_DEACTIVATED
    /\ account' = account
    /\ response'.problem = "-"

TermsAgreed ==
    /\ account' = [account EXCEPT !.terms_of_service_agreed = TRUE]
    /\ db' = db
    /\ response'.problem = "-"

RejectedMalformed ==
    /\ response'.problem = "malformed"
    /\ account' = account
    /\ db' = db

\* C11 as stated: every account update is a pure contact update, a pure
\* deactivation or a rejection as Malformed that changes nothing, and a
\* message with both status=deactivated and a contact is rejected as
\* Malformed.
C11_CombinedIsMalformed ==
    [][\A msg \in Messages : UpdateAccount(msg) =>
          /\ \/ PureContactUpdate(msg)
             \/ PureDeactivation
             \/ RejectedMalformed
          /\ (msg.status = STATUS_DEACTIVATED /\ msg.contact # NoContact)
                => RejectedMalformed
      ]_vars

\* C11 amended: a message with status=deactivated is applied as a pure
\* deactivation whether or not it carries a contact (the contact is
\* ignored), a message with a contact and no status as a pure contact
\* update, a message with only the agreement to the terms of service as
\* that agreement, and an empty message is rejected as Malformed and
\* changes nothing.
C11_UpdateIsOneOf ==
    [][\A msg \in Messages : UpdateAccount(msg) =>
          /\ msg.status = STATUS_DEACTIVATED => PureDeactivation
          /\ (msg.status # STATUS_DEACTIVATED /\ msg.contact # NoContact)
                => PureContactUpdate(msg)
          /\ msg.terms_of_service_agreed => TermsAgreed
          /\ msg = NoMessage => RejectedMalformed
      ]_vars

\* a message with status=deactivated and a contact has been handled
C11_Witness ==
    /\ response.message.status = STATUS_DEACTIVATED
    /\ response.message.contact = UpdatedContact
    /\ response.problem = "-"
    /\ db[AccountKey] = STATUS_DEACTIVATED
    /\ account.contact = ACCOUNT_ONE_CONTACT

----------------------------------------------------------------------------
(* The http-01 check of acme_validate_challenge on its own: the responder  *)
(* answers with a status and a body, the task reads and compares.          *)

Statuses == {HTTP_OK, HTTP_NOT_FOUND}

InitHttp01 ==
    /\ acmeEnabled = TRUE
    /\ now = 0
    /\ orderExpires = MaxNow
    /\ db = [k \in Keys |->
                IF k = AccountKey THEN STATUS_VALID
                ELSE IF k = AcmeCertKey \/ k[1] = "certificate" THEN ROW_ABSENT
                ELSE STATUS_PENDING]
    /\ tx = [w \in Workers |-> NoTx]
    /\ pc = [w \in Workers |-> "idle"]
    /\ arg = [w \in Workers |-> NoSuchPk]
    /\ loc = [w \in Workers |-> NoLoc]
    /\ outcome = NoOutcome
    /\ account = AccountFixture
    /\ response = NoResponse
    /\ profile = NoObject
    /\ ca = NoObject
    /\ call = NoCall
    /\ probe \in [pc : {"get"}, status : Statuses, body : Bodies,
                  challenge_valid : {FALSE}]

\* requests.get(), the check of the status, the read and the comparison
Http01Check ==
    /\ probe.pc = "get"
    /\ probe' = [probe EXCEPT !.pc = "done",
                              !.challenge_valid = Http01Valid(probe.status, probe.body)]
    /\ UNCHANGED <<acmeVars, accountVars, profileVars>>

NextHttp01 == Http01Check

SpecHttp01 == InitHttp01 /\ [][NextHttp01]_vars

IsPrefix(s, t) == Len(s) <= Len(t) /\ SubSeq(t, 1, Len(s)) = s

\* C12: the http-01 check yields valid exactly if the status is 200 and the
\* body is expected, byte for byte; a non-200 answer, a body that is a
\* strict prefix of expected, a body that differs in a byte and a body that
\* is expected followed by further bytes all yield invalid.
C12_Http01Verdict ==
    probe.pc = "done" =>
        /\ probe.challenge_valid <=> (probe.status = HTTP_OK /\ probe.body = Expected)
        /\ probe.status # HTTP_OK => ~probe.challenge_valid
        /\ (IsPrefix(probe.body, Expected) /\ probe.body # Expected)
              => ~probe.challenge_valid
        /\ (\E i \in 1..Len(Expected) :
                i <= Len(probe.body) /\ probe.body[i] # Expected[i])
              => ~probe.challenge_valid
        /\ (IsPrefix(Expected, probe.body) /\ Len(probe.body) > Len(Expected))
              => ~probe.challenge_valid

\* a 200 answer whose body is expected followed by more bytes than the one
\* byte that is read beyond it, found invalid
C12_Witness ==
    /\ probe.pc = "done"
    /\ probe.status = HTTP_OK
    /\ IsPrefix(Expected, probe.body)
    /\ Len(probe.body) > Len(Expected) + 1
    /\ ~probe.challenge_valid

----------------------------------------------------------------------------
(* Profile.create_cert (django_ca/profiles.py): data                       *)

\* ExtensionOID: the extension kinds of the model
AUTHORITY_INFORMATION_ACCESS == "authorityInfoAccess"
CRL_DISTRIBUTION_POINTS == "cRLDistributionPoints"
ISSUER_ALTERNATIVE_NAME == "issuerAltName"
SUBJECT_ALTERNATIVE_NAME == "subjectAltName"
OCSP_NO_CHECK == "OCSPNoCheck"
BASIC_CONSTRAINTS == "basicConstraints"
SUBJECT_KEY_IDENTIFIER == "subjectKeyIdentifier"
AUTHORITY_KEY_IDENTIFIER == "authorityKeyIdentifier"
\* an OID the x509 library has no extension type for
UnknownOid == "1.2.3.4"

\* constants.CONFIGURABLE_EXTENSION_KEYS: what a caller or profile may set
CONFIGURABLE_EXTENSION_KEYS ==
    {AUTHORITY_INFORMATION_ACCESS, CRL_DISTRIBUTION_POINTS, ISSUER_ALTERNATIVE_NAME,
     SUBJECT_ALTERNATIVE_NAME, OCSP_NO_CHECK}

\* AuthorityInformationAccessOID, as dotted strings
OCSP == "1.3.6.1.5.5.7.48.1"
CA_ISSUERS == "1.3.6.1.5.5.7.48.2"

\* the order of the dotted strings that sorted() compares
DottedStringLess(a, b) == a = OCSP /\ b = CA_ISSUERS

\* NameOID
COUNTRY_NAME == "C"
ORGANIZATIONAL_UNIT_NAME == "OU"
COMMON_NAME == "CN"

\* an element of an extension value: an access description (method and
\* location), a general name (type and value) or an opaque value
Item(t, v) == [type |-> t, value |-> v]

\* x509.Extension; unrecognized: its value is an x509.UnrecognizedExtension
Extension(oid, critical, value) ==
    [oid |-> oid, critical |-> critical, value |-> value, unrecognized |-> FALSE]

UnrecognizedExtension(oid) ==
    [oid |-> oid, critical |-> FALSE, value |-> <<Item("der", "cert")>>,
     unrecognized |-> TRUE]

\* an extension with an opaque value that names who supplied it
Opaque(oid, who) == Extension(oid, FALSE, <<Item("value", who)>>)

\* a dict keyed by OID, in insertion order: a sequence of extensions with
\* distinct OIDs
Oids(d) == {d[i].oid : i \in 1..Len(d)}
Has(d, oid) == oid \in Oids(d)
Get(d, oid) == d[CHOOSE i \in 1..Len(d) : d[i].oid = oid]
Put(d, ext) ==
    IF Has(d, ext.oid)
    THEN [i \in 1..Len(d) |-> IF d[i].oid = ext.oid THEN ext ELSE d[i]]
    ELSE Append(d, ext)
SetDefault(d, ext) == IF Has(d, ext.oid) THEN d ELSE Append(d, ext)
Pop(d, oid) == SelectSeq(d, LAMBDA e : e.oid # oid)

\* {ext.oid: ext for ext in extensions}
RECURSIVE DictOf(_)
DictOf(extensions) ==
    IF extensions = <<>> THEN <<>>
    ELSE Put(DictOf(SubSeq(extensions, 1, Len(extensions) - 1)),
             extensions[Len(extensions)])

\* x509.Name or None
NoneName == [none |-> TRUE, attributes |-> <<>>]
Name(attributes) == [none |-> FALSE, attributes |-> attributes]
NameAttribute(oid, value) == [oid |-> oid, value |-> value]

\* Name.get_attributes_for_oid
AttributesForOid(name, oid) == SelectSeq(name.attributes, LAMBDA a : a.oid = oid)

\* model_settings.CA_DEFAULT_NAME_ORDER, restricted to the types of the model
CA_DEFAULT_NAME_ORDER == <<COUNTRY_NAME, ORGANIZATIONAL_UNIT_NAME, COMMON_NAME>>

\* merge_x509_names without the default order: the attributes of update, then
\* those of base whose type update does not have
MergeFromInputOrder(base, update, i) ==
    IF i > 1 THEN <<>>
    ELSE update.attributes
         \o SelectSeq(base.attributes,
                      LAMBDA a : AttributesForOid(update, a.oid) = <<>>)

\* merge_x509_names: per type in the default order, the attributes of update
\* if it has any, else those of base
RECURSIVE MergeFrom(_, _, _)
MergeFrom(base, update, i) ==
    IF i > Len(CA_DEFAULT_NAME_ORDER) THEN <<>>
    ELSE LET oid == CA_DEFAULT_NAME_ORDER[i]
             upd == AttributesForOid(update, oid)
         IN  (IF upd # <<>> THEN upd ELSE AttributesForOid(base, oid))
             \o MergeFrom(base, update, i + 1)

\* merge_x509_names in which the attributes of base win over those of update
MergeKeepingBase(base, update) == Name(MergeFrom(update, base, 1))

merge_x509_names(base, update) == Name(MergeFrom(base, update, 1))

----------------------------------------------------------------------------
(* Profile.create_cert: the steps that compute                             *)

\* an optional bool argument: "None", "True" or "False"
OptBool == {"None", "True", "False"}

\* the add_... argument if passed, else the value of the profile
AddFlag(argument, of_profile) ==
    IF argument = "None" THEN of_profile ELSE argument = "True"

\* a check that would let every unrecognized extension pass
NotConfigurableIgnoresFlag(extensions, allow_unrecognized_extensions) ==
    \E i \in 1..Len(extensions) :
        /\ ~extensions[i].unrecognized
        /\ extensions[i].oid \notin CONFIGURABLE_EXTENSION_KEYS

\* the check of the extensions the caller passed
NotConfigurable(extensions, allow_unrecognized_extensions) ==
    \E i \in 1..Len(extensions) :
        /\ ~(allow_unrecognized_extensions /\ extensions[i].unrecognized)
        /\ extensions[i].oid \notin CONFIGURABLE_EXTENSION_KEYS

\* an entry of Profile.extensions: an extension, or None to unset the kind
ProfileExtension(ext) == [oid |-> ext.oid, unset |-> FALSE, ext |-> ext]
ProfileNone(oid) == [oid |-> oid, unset |-> TRUE, ext |-> Opaque(oid, "None")]

\* a profile whose defaults would replace what the caller passed
RECURSIVE GetExtensionsProfileWins(_, _)
GetExtensionsProfileWins(profile_extensions, extensions) ==
    IF profile_extensions = <<>> THEN extensions
    ELSE LET entry == Head(profile_extensions)
         IN  GetExtensionsProfileWins(
                 Tail(profile_extensions),
                 IF entry.unset THEN Pop(extensions, entry.oid)
                 ELSE Put(extensions, entry.ext))

\* Profile._get_extensions
RECURSIVE GetExtensions(_, _)
GetExtensions(profile_extensions, extensions) ==
    IF profile_extensions = <<>> THEN extensions
    ELSE LET entry == Head(profile_extensions)
         IN  GetExtensions(
                 Tail(profile_extensions),
                 IF entry.unset THEN Pop(extensions, entry.oid)
                 ELSE SetDefault(extensions, entry.ext))

HasCommonName(subject) ==
    ~subject.none /\ AttributesForOid(subject, COMMON_NAME) # <<>>

\* the general name types that can become a common name
CnTypes == {"DNSName", "IPAddress"}

\* the common name taken from the last usable general name
UpdateCnFromSanLast(subject, extensions) ==
    IF HasCommonName(subject) THEN subject
    ELSE IF Has(extensions, SUBJECT_ALTERNATIVE_NAME)
    THEN LET san_ext == Get(extensions, SUBJECT_ALTERNATIVE_NAME)
             usable == SelectSeq(san_ext.value, LAMBDA val : val.type \in CnTypes)
         IN  IF usable # <<>>
             THEN LET common_name_name ==
                          Name(<<NameAttribute(COMMON_NAME, usable[Len(usable)].value)>>)
                  IN  IF subject.none THEN common_name_name
                      ELSE merge_x509_names(subject, common_name_name)
             ELSE subject
    ELSE subject

\* Profile._update_cn_from_san
UpdateCnFromSan(subject, extensions) ==
    IF HasCommonName(subject) THEN subject
    ELSE IF Has(extensions, SUBJECT_ALTERNATIVE_NAME)
    THEN LET san_ext == Get(extensions, SUBJECT_ALTERNATIVE_NAME)
             usable == SelectSeq(san_ext.value, LAMBDA val : val.type \in CnTypes)
         IN  IF usable # <<>>
             THEN LET common_name_name ==
                          Name(<<NameAttribute(COMMON_NAME, usable[1].value)>>)
                  IN  IF subject.none THEN common_name_name
                      ELSE merge_x509_names(subject, common_name_name)
             ELSE subject
    ELSE subject

\* sorted(..., key=lambda ad: ad.access_method.dotted_string): stable
RECURSIVE SortedByMethod(_)
SortedByMethod(ads) ==
    IF ads = <<>> THEN <<>>
    ELSE LET rest == SortedByMethod(SubSeq(ads, 1, Len(ads) - 1))
             ad == ads[Len(ads)]
             before == SelectSeq(rest, LAMBDA x : ~DottedStringLess(ad.type, x.type))
             after == SelectSeq(rest, LAMBDA x : DottedStringLess(ad.type, x.type))
         IN  before \o <<ad>> \o after

HasMethod(ads, method) == \E i \in 1..Len(ads) : ads[i].type = method
Contains(ads, ad) == \E i \in 1..Len(ads) : ads[i] = ad

\* the access descriptions of the CA of any method that are not in the list
FromCaAnyMethod(ca_ads, ads, method) ==
    SelectSeq(ca_ads, LAMBDA ad : ~Contains(ads, ad))

\* the access descriptions of the CA of one method that are not in the list
FromCa(ca_ads, ads, method) ==
    SelectSeq(ca_ads, LAMBDA ad : ~Contains(ads, ad) /\ ad.type = method)

\* the merge with the critical flag of the CA, whatever the certificate has
UpdateAuthorityInformationAccessCaCritical(extensions, ca_extensions, add_issuer_url, add_ocsp_url) ==
    IF ~Has(ca_extensions, AUTHORITY_INFORMATION_ACCESS) THEN extensions
    ELSE LET oid == AUTHORITY_INFORMATION_ACCESS
             ca_aia_ext == Get(ca_extensions, oid)
             in_cert == Has(extensions, oid)
             of_cert == IF in_cert THEN Get(extensions, oid).value ELSE <<>>
             has_ocsp == HasMethod(of_cert, OCSP)
             has_issuer == HasMethod(of_cert, CA_ISSUERS)
             critical == ca_aia_ext.critical
             with_issuer == IF add_issuer_url /\ ~has_issuer
                            THEN of_cert \o FromCa(ca_aia_ext.value, of_cert, CA_ISSUERS)
                            ELSE of_cert
             with_ocsp == IF add_ocsp_url /\ ~has_ocsp
                          THEN with_issuer \o FromCa(ca_aia_ext.value, with_issuer, OCSP)
                          ELSE with_issuer
             access_descriptions == SortedByMethod(with_ocsp)
         IN  IF access_descriptions # <<>>
             THEN Put(extensions, Extension(oid, critical, access_descriptions))
             ELSE extensions

\* Profile._update_authority_information_access
UpdateAuthorityInformationAccess(extensions, ca_extensions, add_issuer_url, add_ocsp_url) ==
    IF ~Has(ca_extensions, AUTHORITY_INFORMATION_ACCESS) THEN extensions
    ELSE LET oid == AUTHORITY_INFORMATION_ACCESS
             ca_aia_ext == Get(ca_extensions, oid)
             in_cert == Has(extensions, oid)
             of_cert == IF in_cert THEN Get(extensions, oid).value ELSE <<>>
             has_ocsp == HasMethod(of_cert, OCSP)
             has_issuer == HasMethod(of_cert, CA_ISSUERS)
             critical == IF in_cert THEN Get(extensions, oid).critical
                         ELSE ca_aia_ext.critical
             with_issuer == IF add_issuer_url /\ ~has_issuer
                            THEN of_cert \o FromCa(ca_aia_ext.value, of_cert, CA_ISSUERS)
                            ELSE of_cert
             with_ocsp == IF add_ocsp_url /\ ~has_ocsp
                          THEN with_issuer \o FromCa(ca_aia_ext.value, with_issuer, OCSP)
                          ELSE with_issuer
             access_descriptions == SortedByMethod(with_ocsp)
         IN  IF access_descriptions # <<>>
             THEN Put(extensions, Extension(oid, critical, access_descriptions))
             ELSE extensions

\* Profile._add_crl_distribution_points
AddCrlDistributionPoints(extensions, ca_extensions) ==
    IF ~Has(ca_extensions, CRL_DISTRIBUTION_POINTS) THEN extensions
    ELSE IF Has(extensions, CRL_DISTRIBUTION_POINTS) THEN extensions
    ELSE Put(extensions, Get(ca_extensions, CRL_DISTRIBUTION_POINTS))

\* the issuerAlternativeName of the CA, whatever the certificate has
UpdateIssuerAlternativeNameAlways(extensions, ca_extensions) ==
    IF Has(ca_extensions, ISSUER_ALTERNATIVE_NAME)
    THEN Put(extensions, Get(ca_extensions, ISSUER_ALTERNATIVE_NAME))
    ELSE extensions

\* Profile._update_issuer_alternative_name
UpdateIssuerAlternativeName(extensions, ca_extensions) ==
    IF Has(ca_extensions, ISSUER_ALTERNATIVE_NAME)
       /\ ~Has(extensions, ISSUER_ALTERNATIVE_NAME)
    THEN Put(extensions, Get(ca_extensions, ISSUER_ALTERNATIVE_NAME))
    ELSE extensions

\* Profile._update_from_ca; add: the four add_... flags
UpdateFromCaExtensions(ca_extensions, extensions, add) ==
    LET with_crl == IF add.crl_url
                    THEN AddCrlDistributionPoints(extensions, ca_extensions)
                    ELSE extensions
        with_aia == UpdateAuthorityInformationAccess(
                        with_crl, ca_extensions, add.issuer_url, add.ocsp_url)
    IN  IF add.issuer_alternative_name
        THEN UpdateIssuerAlternativeName(with_aia, ca_extensions)
        ELSE with_aia

\* ca.get_end_entity_certificate_extensions(public_key)
EndEntityCertificateExtensions ==
    <<Opaque(AUTHORITY_KEY_IDENTIFIER, "ca"),
      Extension(BASIC_CONSTRAINTS, TRUE, <<Item("ca", "False")>>),
      Opaque(SUBJECT_KEY_IDENTIFIER, "public_key")>>

----------------------------------------------------------------------------
(* Profile.create_cert: the call                                           *)

NoCertificate ==
    [issued |-> FALSE, subject |-> NoneName, not_after |-> 0, extensions |-> <<>>]

\* not_after is not passed
NoNotAfter == [kind |-> "None", value |-> 0]

\* a call that has been entered with the given arguments
NewCall(args) ==
    [pc |-> "start",
     args |-> args,
     request |-> [via |-> "direct", not_after |-> 0],
     subject |-> args.subject,
     not_after |-> 0,
     configurable_cert_extensions |-> <<>>,
     certificate_extensions |-> <<>>,
     pre_sign_cert |-> 0,           \* events sent to the receivers
     sign_certificate |-> 0,        \* calls of the signer
     certificate |-> NoCertificate,
     error |-> "-"]

Raised(c, message) == [c EXCEPT !.pc = "raised", !.error = message]

\* the add_... flags in effect (lines 279-286)
Add ==
    [crl_url |-> AddFlag(call.args.add_crl_url, profile.add_crl_url),
     ocsp_url |-> AddFlag(call.args.add_ocsp_url, profile.add_ocsp_url),
     issuer_url |-> AddFlag(call.args.add_issuer_url, profile.add_issuer_url),
     issuer_alternative_name |->
         AddFlag(call.args.add_issuer_alternative_name,
                 profile.add_issuer_alternative_name)]

\* lines 288-306: the check of the caller's extensions, the dict built from
\* them and the extensions of the profile
CheckExtensions ==
    /\ call.pc = "start"
    /\ call' =
         IF NotConfigurable(call.args.extensions, call.args.allow_unrecognized_extensions)
         THEN Raised(call, "Extension cannot be set when creating a certificate.")
         ELSE [call EXCEPT
                 !.pc = "subject",
                 !.configurable_cert_extensions =
                     GetExtensions(profile.extensions, DictOf(call.args.extensions))]
    /\ UNCHANGED <<acmeVars, accountVars, probe, profile, ca>>

\* the expiry of the profile, whatever was passed
NotAfterOfProfile(not_after) == now + profile.expires

\* lines 326-332: not_after as a fixed timestamp
NotAfter(not_after) ==
    IF not_after.kind = "timedelta" THEN now + not_after.value
    ELSE IF not_after.kind = "None" THEN now + profile.expires
    ELSE not_after.value

\* lines 308-318: the subject merged with the one of the profile, with the
\* common name taken from the subjectAlternativeName
SubjectOf(c) ==
    LET merged == IF ~profile.subject.none
                  THEN IF ~c.subject.none
                       THEN merge_x509_names(profile.subject, c.subject)
                       ELSE profile.subject
                  ELSE c.subject
    IN  UpdateCnFromSan(merged, c.configurable_cert_extensions)

\* lines 308-337 without the check of lines 334-337
ResolveSubjectUnchecked ==
    /\ call.pc = "subject"
    /\ LET subject == SubjectOf(call)
       IN  call' =
             IF subject.none
             THEN Raised(call, "Cannot determine subject for certificate.")
             ELSE [call EXCEPT !.pc = "from_ca", !.subject = subject,
                               !.not_after = NotAfter(call.args.not_after)]
    /\ UNCHANGED <<acmeVars, accountVars, probe, profile, ca>>

\* lines 308-337
ResolveSubject ==
    /\ call.pc = "subject"
    /\ LET subject == SubjectOf(call)
       IN  call' =
             IF subject.none
             THEN Raised(call, "Cannot determine subject for certificate.")
             ELSE IF /\ AttributesForOid(subject, COMMON_NAME) = <<>>
                     /\ ~Has(call.configurable_cert_extensions, SUBJECT_ALTERNATIVE_NAME)
             THEN Raised([call EXCEPT !.subject = subject],
                         "Must name at least a CN or a subjectAlternativeName.")
             ELSE [call EXCEPT !.pc = "from_ca", !.subject = subject,
                               !.not_after = NotAfter(call.args.not_after)]
    /\ UNCHANGED <<acmeVars, accountVars, probe, profile, ca>>

\* lines 344-361: the extensions of the CA and the mandatory extensions
\* (format_extensions, line 356, fills in placeholders of URLs; the values
\* here have none)
UpdateFromCa ==
    /\ call.pc = "from_ca"
    /\ LET extensions == UpdateFromCaExtensions(
                             ca.extensions_for_certificate,
                             call.configurable_cert_extensions, Add)
       IN  call' = [call EXCEPT
                      !.pc = "pre_sign",
                      !.configurable_cert_extensions = extensions,
                      !.certificate_extensions =
                          EndEntityCertificateExtensions \o extensions]
    /\ UNCHANGED <<acmeVars, accountVars, probe, profile, ca>>

\* lines 363-372: pre_sign_cert.send(), every receiver returns
PreSign ==
    /\ call.pc = "pre_sign"
    /\ call' = [call EXCEPT !.pc = "sign", !.pre_sign_cert = @ + 1]
    /\ UNCHANGED <<acmeVars, accountVars, probe, profile, ca>>

\* a receiver raises, but only after the key backend has signed
PreSignRaisesAfterSigning ==
    /\ call.pc = "pre_sign"
    /\ call' = Raised([call EXCEPT !.pre_sign_cert = @ + 1,
                                   !.sign_certificate = @ + 1], "receiver")
    /\ UNCHANGED <<acmeVars, accountVars, probe, profile, ca>>

\* lines 363-372: pre_sign_cert.send(), a receiver raises
PreSignRaises ==
    /\ call.pc = "pre_sign"
    /\ call' = Raised([call EXCEPT !.pre_sign_cert = @ + 1], "receiver")
    /\ UNCHANGED <<acmeVars, accountVars, probe, profile, ca>>

\* the signer refuses a certificate that would outlive the CA
ExpiryExceedsIssuer(not_after) == not_after > ca.not_after

\* a signer that takes every CA for usable
CertificateAuthorityAlwaysUsable == FALSE

\* the signer refuses a disabled CA
CertificateAuthorityUnusable == ~ca.enabled

\* lines 374-384: the key backend signs
Sign ==
    /\ call.pc = "sign"
    /\ ~ExpiryExceedsIssuer(call.not_after)
    /\ ~CertificateAuthorityUnusable
    /\ call' = [call EXCEPT
                  !.pc = "done",
                  !.sign_certificate = @ + 1,
                  !.certificate = [issued |-> TRUE,
                                   subject |-> call.subject,
                                   not_after |-> call.not_after,
                                   extensions |-> call.certificate_extensions]]
    /\ UNCHANGED <<acmeVars, accountVars, probe, profile, ca>>

\* lines 374-384: the key backend raises
SignRaises ==
    /\ call.pc = "sign"
    /\ call' = Raised([call EXCEPT !.sign_certificate = @ + 1], "key backend")
    /\ UNCHANGED <<acmeVars, accountVars, probe, profile, ca>>

NextProfile ==
    \/ CheckExtensions
    \/ ResolveSubject
    \/ UpdateFromCa
    \/ PreSign
    \/ PreSignRaises
    \/ Sign
    \/ SignRaises

\* nothing of the ACME state machine is going on
AcmeAtRest ==
    /\ acmeEnabled = TRUE
    /\ now = 0
    /\ orderExpires = MaxNow
    /\ db = [k \in Keys |->
                IF k = AccountKey THEN STATUS_VALID
                ELSE IF k = AcmeCertKey \/ k[1] = "certificate" THEN ROW_ABSENT
                ELSE STATUS_PENDING]
    /\ tx = [w \in Workers |-> NoTx]
    /\ pc = [w \in Workers |-> "idle"]
    /\ arg = [w \in Workers |-> NoSuchPk]
    /\ loc = [w \in Workers |-> NoLoc]
    /\ outcome = NoOutcome
    /\ account = AccountFixture
    /\ response = NoResponse
    /\ probe = NoProbe

----------------------------------------------------------------------------
(* Profile.create_cert: calls that differ in the extensions of the caller  *)
(* and of the profile                                                      *)

MaxCallerExts == 2

\* the hostname of the tests
Hostname == "example.com"
SubjectWithCn == Name(<<NameAttribute(COMMON_NAME, Hostname)>>)

\* the sequences over S of at most n elements
SeqsUpTo(S, n) == UNION {[1..k -> S] : k \in 0..n}

\* extensions a caller may pass: configurable ones, ones that are not, and
\* unrecognized ones with an unknown OID or with the OID of a mandatory
\* extension
CallerExtensions ==
    {Opaque(CRL_DISTRIBUTION_POINTS, "cert"),
     Opaque(ISSUER_ALTERNATIVE_NAME, "cert"),
     Opaque(OCSP_NO_CHECK, "cert"),
     Extension(AUTHORITY_INFORMATION_ACCESS, FALSE, <<Item(OCSP, "cert")>>),
     Opaque(BASIC_CONSTRAINTS, "cert"),
     Opaque(SUBJECT_KEY_IDENTIFIER, "cert"),
     Opaque(AUTHORITY_KEY_IDENTIFIER, "cert"),
     UnrecognizedExtension(UnknownOid),
     UnrecognizedExtension(BASIC_CONSTRAINTS)}

\* Profile.extensions with at most one entry: a default or None
ProfileExtensions ==
    {<<>>}
    \cup {<<ProfileNone(oid)>> :
            oid \in {CRL_DISTRIBUTION_POINTS, ISSUER_ALTERNATIVE_NAME, OCSP_NO_CHECK,
                     AUTHORITY_INFORMATION_ACCESS}}
    \cup {<<ProfileExtension(Opaque(oid, "profile"))>> :
            oid \in {CRL_DISTRIBUTION_POINTS, ISSUER_ALTERNATIVE_NAME, OCSP_NO_CHECK}}
    \cup {<<ProfileExtension(Extension(AUTHORITY_INFORMATION_ACCESS, FALSE,
                                       <<Item(CA_ISSUERS, "profile")>>))>>}

\* a profile without subject whose four add_... flags are all b
ProfileWith(extensions, b) ==
    [subject |-> NoneName, expires |-> 1, extensions |-> extensions,
     add_crl_url |-> b, add_ocsp_url |-> b, add_issuer_url |-> b,
     add_issuer_alternative_name |-> b]

\* ca.extensions_for_certificate of a CA with all URLs configured
CaExtensions ==
    <<Opaque(CRL_DISTRIBUTION_POINTS, "ca"),
      Extension(AUTHORITY_INFORMATION_ACCESS, FALSE,
                <<Item(CA_ISSUERS, "ca"), Item(OCSP, "ca")>>),
      Opaque(ISSUER_ALTERNATIVE_NAME, "ca")>>

InitProfile ==
    /\ AcmeAtRest
    /\ \E extensions \in ProfileExtensions, b \in BOOLEAN :
          profile = ProfileWith(extensions, b)
    /\ ca \in [not_after : {MaxNotAfter}, enabled : {TRUE},
             extensions_for_certificate : {<<>>, CaExtensions}]
    /\ \E args \in [subject : {SubjectWithCn, NoneName},
                    extensions : SeqsUpTo(CallerExtensions, MaxCallerExts),
                    allow_unrecognized_extensions : BOOLEAN,
                    add_crl_url : {"None"}, add_ocsp_url : {"None"},
                    add_issuer_url : {"None"},
                    add_issuer_alternative_name : {"None"},
                    not_after : {NoNotAfter}] :
          call = NewCall(args)

SpecProfile == InitProfile /\ [][NextProfile]_vars

----------------------------------------------------------------------------
(* Properties of Profile.create_cert: extensions of caller and profile     *)

\* what the caller passed, by OID
CallerDict == DictOf(call.args.extensions)

ProfileUnsets(oid) ==
    \E i \in 1..Len(profile.extensions) :
        profile.extensions[i].oid = oid /\ profile.extensions[i].unset

ProfileHasDefault(oid) ==
    \E i \in 1..Len(profile.extensions) :
        profile.extensions[i].oid = oid /\ ~profile.extensions[i].unset

ProfileDefault(oid) ==
    profile.extensions[CHOOSE i \in 1..Len(profile.extensions) :
                           profile.extensions[i].oid = oid].ext

\* the extensions of the given OID in a list of extensions
OfOid(extensions, oid) == SelectSeq(extensions, LAMBDA e : e.oid = oid)

\* the kinds that Profile._update_from_ca may add or extend
FromCaKinds ==
    {CRL_DISTRIBUTION_POINTS, AUTHORITY_INFORMATION_ACCESS, ISSUER_ALTERNATIVE_NAME}

\* what caller and profile together say about a kind: nothing if the
\* profile unsets it, else the caller's value, else the profile's default
Resolved(oid) ==
    IF ProfileUnsets(oid) THEN <<>>
    ELSE IF Has(CallerDict, oid) THEN <<Get(CallerDict, oid)>>
    ELSE IF ProfileHasDefault(oid) THEN <<ProfileDefault(oid)>>
    ELSE <<>>

ValidationErrors ==
    {"Extension cannot be set when creating a certificate.",
     "Cannot determine subject for certificate.",
     "Must name at least a CN or a subjectAlternativeName."}

\* the caller passed an extension of a kind that is not configurable
PassedNotConfigurable ==
    \E i \in 1..Len(call.args.extensions) :
        call.args.extensions[i].oid \notin CONFIGURABLE_EXTENSION_KEYS

\* the same, not counting unrecognized extensions that the caller allowed
PassedNotConfigurableNotAllowed ==
    \E i \in 1..Len(call.args.extensions) :
        /\ call.args.extensions[i].oid \notin CONFIGURABLE_EXTENSION_KEYS
        /\ ~(call.args.allow_unrecognized_extensions
             /\ call.args.extensions[i].unrecognized)

RejectedBeforeEvent ==
    /\ call.pc \in {"start", "raised"}
    /\ call.pc = "raised" =>
          call.error = "Extension cannot be set when creating a certificate."
    /\ call.pre_sign_cert = 0
    /\ call.sign_certificate = 0
    /\ ~call.certificate.issued

\* the issued certificate has the extensions of the CA for the mandatory
\* kinds
MandatoryKept ==
    call.certificate.issued =>
        \A i \in 1..Len(EndEntityCertificateExtensions) :
            Contains(call.certificate.extensions, EndEntityCertificateExtensions[i])

DistinctOids(extensions) ==
    \A i, j \in 1..Len(extensions) :
        extensions[i].oid = extensions[j].oid => i = j

\* C15: the list of extensions passed to the pre-sign event and to the
\* signer has at most one extension per OID.
C15_OneExtensionPerOid ==
    (call.pre_sign_cert > 0 \/ call.sign_certificate > 0)
        => DistinctOids(call.certificate_extensions)

----------------------------------------------------------------------------
(* Profile.create_cert: the authorityInformationAccess extension           *)

MaxAccessDescriptions == 2

\* AuthorityInformationAccess extensions with a non-empty list of at most
\* MaxAccessDescriptions access descriptions of the given origin, in any
\* order
AuthorityInformationAccess(who) ==
    {Extension(AUTHORITY_INFORMATION_ACCESS, critical, ads) :
        critical \in BOOLEAN,
        ads \in SeqsUpTo({Item(OCSP, who), Item(CA_ISSUERS, who)},
                         MaxAccessDescriptions) \ {<<>>}}

\* calls with at most one authorityInformationAccess extension, for a
\* profile that has none, unsets it or has a default, and a CA with or
\* without one
InitAia ==
    /\ AcmeAtRest
    /\ \E b \in BOOLEAN,
          extensions \in
              {<<>>, <<ProfileNone(AUTHORITY_INFORMATION_ACCESS)>>,
               <<ProfileExtension(Extension(AUTHORITY_INFORMATION_ACCESS, FALSE,
                                            <<Item(CA_ISSUERS, "profile")>>))>>} :
          profile = ProfileWith(extensions, b)
    /\ \E ca_extensions \in {<<>>} \cup {<<e>> : e \in AuthorityInformationAccess("ca")} :
          ca = [not_after |-> MaxNotAfter, enabled |-> TRUE,
                extensions_for_certificate |-> ca_extensions]
    /\ \E args \in [subject : {SubjectWithCn},
                    extensions : {<<>>} \cup
                        {<<e>> : e \in AuthorityInformationAccess("cert")},
                    allow_unrecognized_extensions : {FALSE},
                    add_crl_url : {"None"},
                    add_ocsp_url : OptBool,
                    add_issuer_url : OptBool,
                    add_issuer_alternative_name : {"None"},
                    not_after : {NoNotAfter}] :
          call = NewCall(args)

SpecAia == InitAia /\ [][NextProfile]_vars

\* the access descriptions of the only extension of a list, if any
AccessDescriptions(extensions) ==
    IF extensions = <<>> THEN <<>> ELSE extensions[1].value

\* how often x occurs in a list
Count(list, x) == Cardinality({i \in 1..Len(list) : list[i] = x})

\* the access descriptions of the CA of a method, wanted if the flag is
\* true and the working set has no access description of the method
WantedFromCa(method, flag) ==
    IF flag /\ ~HasMethod(AccessDescriptions(Resolved(AUTHORITY_INFORMATION_ACCESS)), method)
    THEN SelectSeq(AccessDescriptions(OfOid(ca.extensions_for_certificate,
                                            AUTHORITY_INFORMATION_ACCESS)),
                   LAMBDA ad : ad.type = method)
    ELSE <<>>

\* the access descriptions the certificate is to have, in no particular
\* order
ExpectedAccessDescriptions ==
    AccessDescriptions(Resolved(AUTHORITY_INFORMATION_ACCESS))
        \o WantedFromCa(CA_ISSUERS, Add.issuer_url)
        \o WantedFromCa(OCSP, Add.ocsp_url)

\* the access descriptions that create_cert arrived at
ProducedAccessDescriptions ==
    AccessDescriptions(OfOid(call.certificate_extensions, AUTHORITY_INFORMATION_ACCESS))

ConsistsOfExpected ==
    /\ Len(OfOid(call.certificate_extensions, AUTHORITY_INFORMATION_ACCESS)) <= 1
    /\ \A ad \in {Item(method, who) : method \in {OCSP, CA_ISSUERS},
                                      who \in {"cert", "profile", "ca"}} :
          Count(ProducedAccessDescriptions, ad) = Count(ExpectedAccessDescriptions, ad)

SortedByAccessMethod(ads) ==
    \A i, j \in 1..Len(ads) :
        i < j => ~DottedStringLess(ads[j].type, ads[i].type)

AfterUpdateFromCa == call.pc \in {"pre_sign", "sign", "done"}

\* C16 as stated: the authorityInformationAccess extension that create_cert
\* produces consists of the access descriptions of the working set plus,
\* for each of CA-Issuers (add_issuer_url) and OCSP (add_ocsp_url) whose
\* flag is true, the CA's access descriptions of that method if the working
\* set has none of that method; the list is always sorted by the dotted
\* string of the access method.
C16_AiaMergedAlwaysSorted ==
    AfterUpdateFromCa =>
        /\ ConsistsOfExpected
        /\ SortedByAccessMethod(ProducedAccessDescriptions)

\* C16 amended: the same access descriptions; the list is sorted by the
\* dotted string of the access method whenever the CA has an
\* authorityInformationAccess extension, and is the list of the working set
\* in its own order when the CA has none.
C16_AiaMergedSortedIfCaHasOne ==
    AfterUpdateFromCa =>
        /\ ConsistsOfExpected
        /\ Has(ca.extensions_for_certificate, AUTHORITY_INFORMATION_ACCESS)
              => SortedByAccessMethod(ProducedAccessDescriptions)
        /\ ~Has(ca.extensions_for_certificate, AUTHORITY_INFORMATION_ACCESS)
              => ProducedAccessDescriptions
                    = AccessDescriptions(Resolved(AUTHORITY_INFORMATION_ACCESS))

\* a certificate for a call that passed only a CA-Issuers access
\* description: the OCSP access description of the CA is added in front of
\* it, the CA-Issuers one of the CA is not added
C16_Witness ==
    /\ call.pc = "done"
    /\ Add.issuer_url /\ Add.ocsp_url
    /\ AccessDescriptions(Resolved(AUTHORITY_INFORMATION_ACCESS))
          = <<Item(CA_ISSUERS, "cert")>>
    /\ AccessDescriptions(ca.extensions_for_certificate)
          = <<Item(CA_ISSUERS, "ca"), Item(OCSP, "ca")>>
    /\ AccessDescriptions(OfOid(call.certificate.extensions,
                                AUTHORITY_INFORMATION_ACCESS))
          = <<Item(OCSP, "ca"), Item(CA_ISSUERS, "cert")>>

----------------------------------------------------------------------------
(* Profile.create_cert: cRLDistributionPoints and issuerAlternativeName    *)

\* calls that pass cRLDistributionPoints and issuerAlternativeName
\* extensions or not, with each of the two flags passed or left to the
\* profile, for a CA that has both extensions, only the first or none
InitFromCa ==
    /\ AcmeAtRest
    /\ \E extensions \in ProfileExtensions, b \in BOOLEAN :
          profile = ProfileWith(extensions, b)
    /\ ca \in [not_after : {MaxNotAfter}, enabled : {TRUE}, extensions_for_certificate :
                  {<<>>, CaExtensions, <<Opaque(CRL_DISTRIBUTION_POINTS, "ca")>>}]
    /\ \E args \in [subject : {SubjectWithCn},
                    extensions : SeqsUpTo({Opaque(CRL_DISTRIBUTION_POINTS, "cert"),
                                           Opaque(ISSUER_ALTERNATIVE_NAME, "cert")},
                                          MaxCallerExts),
                    allow_unrecognized_extensions : {FALSE},
                    add_crl_url : OptBool,
                    add_ocsp_url : {"None"},
                    add_issuer_url : {"None"},
                    add_issuer_alternative_name : OptBool,
                    not_after : {NoNotAfter}] :
          call = NewCall(args)

SpecFromCa == InitFromCa /\ [][NextProfile]_vars

\* the value of caller or profile if there is one, else the extension of
\* the CA if the flag is true and the CA has one, else nothing
WorkingSetElseCa(oid, flag) ==
    IF Resolved(oid) # <<>> THEN Resolved(oid)
    ELSE IF flag THEN OfOid(ca.extensions_for_certificate, oid)
    ELSE <<>>

----------------------------------------------------------------------------
(* Profile.create_cert: the subject and the subjectAlternativeName         *)

MaxGeneralNames == 2

\* subjectAlternativeName extensions with at most MaxGeneralNames general
\* names, of types that can become a common name and of one that cannot
SubjectAlternativeName ==
    {Extension(SUBJECT_ALTERNATIVE_NAME, FALSE, names) :
        names \in SeqsUpTo({Item("DNSName", Hostname), Item("DNSName", "www.example.com"),
                            Item("IPAddress", "192.0.2.1"),
                            Item("RegisteredID", OCSP_NO_CHECK)},
                           MaxGeneralNames) \ {<<>>}}

\* calls with or without subject and subjectAlternativeName, for profiles
\* with or without subject and subjectAlternativeName
InitSubject ==
    /\ AcmeAtRest
    /\ \E subject \in {NoneName, Name(<<NameAttribute(COUNTRY_NAME, "DE")>>),
                       Name(<<NameAttribute(COMMON_NAME, "profile.example.com")>>)},
          extensions \in
              {<<>>, <<ProfileNone(SUBJECT_ALTERNATIVE_NAME)>>,
               <<ProfileExtension(Extension(SUBJECT_ALTERNATIVE_NAME, FALSE,
                     <<Item("DNSName", "profile.example.com")>>))>>} :
          profile = [ProfileWith(extensions, TRUE) EXCEPT !.subject = subject]
    /\ ca = [not_after |-> MaxNotAfter, enabled |-> TRUE,
            extensions_for_certificate |-> CaExtensions]
    /\ \E args \in [subject : {NoneName, SubjectWithCn,
                               Name(<<NameAttribute(COUNTRY_NAME, "AT")>>),
                               Name(<<NameAttribute(COUNTRY_NAME, "AT"),
                                      NameAttribute(COMMON_NAME, Hostname)>>)},
                    extensions : {<<>>} \cup {<<e>> : e \in SubjectAlternativeName},
                    allow_unrecognized_extensions : {FALSE},
                    add_crl_url : {"None"},
                    add_ocsp_url : {"None"},
                    add_issuer_url : {"None"},
                    add_issuer_alternative_name : {"None"},
                    not_after : {NoNotAfter}] :
          call = NewCall(args)

SpecSubject == InitSubject /\ [][NextProfile]_vars

\* the subject passed, merged with the one of the profile
MergedSubject ==
    IF profile.subject.none THEN call.args.subject
    ELSE IF call.args.subject.none THEN profile.subject
    ELSE merge_x509_names(profile.subject, call.args.subject)

\* the general names of the subjectAlternativeName of the working set
SanGeneralNames ==
    IF Resolved(SUBJECT_ALTERNATIVE_NAME) = <<>> THEN <<>>
    ELSE Resolved(SUBJECT_ALTERNATIVE_NAME)[1].value

\* the positions of the DNSName and IPAddress entries
UsableEntries ==
    {i \in 1..Len(SanGeneralNames) : SanGeneralNames[i].type \in {"DNSName", "IPAddress"}}

FirstUsableEntry ==
    SanGeneralNames[CHOOSE i \in UsableEntries : \A j \in UsableEntries : i <= j]

MergedHasCommonName ==
    ~MergedSubject.none /\ AttributesForOid(MergedSubject, COMMON_NAME) # <<>>

SubjectResolved == call.pc \in {"from_ca", "pre_sign", "sign", "done"}

\* C18: a merged subject with a common name is left unchanged; otherwise the
\* first DNSName or IPAddress of the subjectAlternativeName of the working
\* set, in the order of the extension, becomes the common name, the other
\* attributes are kept, and no later entry is used; with no such entry the
\* subject is unchanged.
C18_CommonNameFromFirstSanEntry ==
    SubjectResolved =>
        /\ MergedHasCommonName => call.subject = MergedSubject
        /\ (~MergedHasCommonName /\ UsableEntries # {}) =>
              /\ AttributesForOid(call.subject, COMMON_NAME)
                    = <<NameAttribute(COMMON_NAME, FirstUsableEntry.value)>>
              /\ AttributesForOid(call.subject, COUNTRY_NAME)
                    = AttributesForOid(MergedSubject, COUNTRY_NAME)
        /\ (~MergedHasCommonName /\ UsableEntries = {}) => call.subject = MergedSubject
        /\ call.certificate.issued => call.certificate.subject = call.subject

\* a certificate for a subject without common name and a
\* subjectAlternativeName of an IPAddress followed by a DNSName: the common
\* name is the IP address
C18_Witness ==
    /\ call.pc = "done"
    /\ MergedSubject = Name(<<NameAttribute(COUNTRY_NAME, "AT")>>)
    /\ SanGeneralNames = <<Item("IPAddress", "192.0.2.1"), Item("DNSName", Hostname)>>
    /\ call.certificate.subject
          = Name(<<NameAttribute(COUNTRY_NAME, "AT"),
                   NameAttribute(COMMON_NAME, "192.0.2.1")>>)

\* the call failed for want of a subject, before any pre-sign event and
\* before the signer was called
FailedForSubject ==
    /\ call.pc = "raised"
    /\ call.error \in {"Cannot determine subject for certificate.",
                       "Must name at least a CN or a subjectAlternativeName."}
    /\ call.pre_sign_cert = 0
    /\ call.sign_certificate = 0
    /\ ~call.certificate.issued

\* the derived subject has no common name and the subjectAlternativeName
\* has no DNSName or IPAddress
NoCommonNameNoUsableEntry == ~MergedHasCommonName /\ UsableEntries = {}

\* C19 as stated: create_cert fails, with no pre-sign event and no signed
\* certificate, whenever the derived subject has no common name and the
\* subjectAlternativeName has no DNSName or IPAddress entry.
C19_FailsWithoutUsableSanEntry ==
    (call.pc \notin {"start", "subject"} /\ NoCommonNameNoUsableEntry)
        => FailedForSubject

\* C19 amended: create_cert fails for want of a subject, with no pre-sign
\* event and no signed certificate, exactly when the derived subject has no
\* common name and either there is no subject at all or the working set has
\* no subjectAlternativeName extension; a subjectAlternativeName without
\* DNSName or IPAddress is enough for a subject without common name.
C19_FailsWithoutCnAndSan ==
    call.pc \notin {"start", "subject"} =>
        /\ (NoCommonNameNoUsableEntry
            /\ (MergedSubject.none \/ Resolved(SUBJECT_ALTERNATIVE_NAME) = <<>>))
              => FailedForSubject
        /\ call.pc = "raised" /\ call.error \in ValidationErrors
              => /\ FailedForSubject
                 /\ NoCommonNameNoUsableEntry
                 /\ MergedSubject.none \/ Resolved(SUBJECT_ALTERNATIVE_NAME) = <<>>

\* a call with a subject without common name and without
\* subjectAlternativeName has failed
C19_Witness ==
    /\ call.pc = "raised"
    /\ call.error = "Must name at least a CN or a subjectAlternativeName."
    /\ MergedSubject = Name(<<NameAttribute(COUNTRY_NAME, "AT")>>)
    /\ Resolved(SUBJECT_ALTERNATIVE_NAME) = <<>>
    /\ call.pre_sign_cert = 0

----------------------------------------------------------------------------
(* Profile.create_cert: the pre-sign event and the signer                  *)

\* C20: in every call the pre-sign event is sent at most once, only after
\* the validation of the input has passed and before the signer is called;
\* a call that fails validation sends no event, and when a receiver of the
\* event raises, the signer is not called and no certificate is created.
C20_PreSignOnceBeforeSigning ==
    /\ call.pre_sign_cert <= 1
    /\ call.pre_sign_cert > 0
          => /\ call.pc \in {"sign", "done", "raised"}
             /\ call.error \notin ValidationErrors
    /\ call.sign_certificate > 0
          => call.pre_sign_cert = 1 /\ call.sign_certificate = 1
    /\ call.certificate.issued => call.sign_certificate = 1 /\ call.error = "-"
    /\ call.error \in ValidationErrors
          => /\ call.pre_sign_cert = 0
             /\ call.sign_certificate = 0
             /\ ~call.certificate.issued
    /\ call.error = "receiver"
          => /\ call.pc = "raised"
             /\ call.sign_certificate = 0
             /\ ~call.certificate.issued

\* a receiver of the pre-sign event has rejected a call that passed
\* validation: the event was sent once and the signer was not called
C20_Witness ==
    /\ call.pc = "raised"
    /\ call.error = "receiver"
    /\ call.pre_sign_cert = 1
    /\ call.sign_certificate = 0
    /\ ~call.certificate.issued

----------------------------------------------------------------------------
(* Properties of the ACME tasks under exceptions and concurrency           *)

\* worker w leaves the probe of a run
ProbeEnds(w) == pc[w] = "probe" /\ pc'[w] # "probe"

\* C26: when the probe of a processing challenge raises, for http-01 as for
\* dns-01, the run does not raise: it goes on with the challenge counted as
\* not valid and makes challenge, authorization and order invalid.  (A run
\* can still be ended from outside, which is the outcome "raised".)
C26_ProbeErrorsCountAsInvalid ==
    [][\A w \in Workers :
        (ProbeEnds(w) /\ ~(pc'[w] = "idle" /\ outcome'.how = "raised")) =>
            /\ pc'[w] = "save_auth"
            /\ ~loc'[w].challenge_valid =>
                  /\ loc'[w].challenge = STATUS_INVALID
                  /\ loc'[w].auth = STATUS_INVALID
                  /\ loc'[w].order = STATUS_INVALID
      ]_vars

\* the certificates that exist
Issued(rows) == {w \in Workers : rows[CertKey(w)] = ROW_PRESENT}

\* C28: however many acme_issue_certificate invocations run on the ACME
\* certificate row, one after the other or at the same time, at most one
\* certificate is issued for the order, the order becomes valid at most
\* once, and an invocation that finds the certificate issued changes nothing.
C28_AtMostOneCertificate ==
    /\ [](Cardinality(Issued(db)) <= 1)
    /\ [][\A w \in Workers :
            /\ IssueCommitStep(w) =>
                  db[OrderKey] # STATUS_VALID /\ db[AcmeCertKey] # CERT_LINKED
            /\ (pc[w] = "idle" /\ pc' = pc
                    /\ outcome' # outcome /\ outcome'.task = "issue"
                    /\ db[AcmeCertKey] = CERT_LINKED) => db' = db
         ]_vars

\* a status that is final for a challenge or an authorization
Decisive(status) == status \in {STATUS_VALID, STATUS_INVALID}

\* C29: no acme_validate_challenge run of a valid account, whatever other
\* runs go on at the same time, changes the status of a challenge that is valid or invalid, of an
\* authorization that is valid or invalid, or of an order that is invalid;
\* the save of the order at the end of a run writes no older status over an
\* invalid order.
C29_DecidedStatusesAbsorbing ==
    [][(AccountUsable(db) /\ \E w \in Workers : ValidateCommitStep(w)) =>
          /\ \A c \in Challenges :
                Decisive(db[ChKey(c)]) => db'[ChKey(c)] = db[ChKey(c)]
          /\ \A a \in Auths :
                Decisive(db[AuthKey(a)]) => db'[AuthKey(a)] = db[AuthKey(a)]
          /\ db[OrderKey] = STATUS_INVALID => db'[OrderKey] = STATUS_INVALID
      ]_vars

\* C30: in every state that acme_validate_challenge runs and account
\* deactivations lead to, a ready order has only valid authorizations.
C30_ReadyOrderHasValidAuths ==
    db[OrderKey] = STATUS_READY => \A a \in Auths : db[AuthKey(a)] = STATUS_VALID

----------------------------------------------------------------------------
(* The expiry of the certificate.  Time is counted in half days from now:  *)
(* a date d starts at 2 * d, and the date of a time t is t \div 2.          *)

\* ca_settings.ACME_DEFAULT_CERT_VALIDITY, in half days
ACME_DEFAULT_CERT_VALIDITY == 3

\* CreateCertificateBaseForm.clean: the date entered must not be after the
\* date the CA expires; the admin then calls create_cert with the start of
\* the date entered
CleanForm ==
    /\ call.pc = "form"
    /\ call' =
         IF ca.not_after \div 2 < call.request.not_after
         THEN Raised(call, "CA expires on %s, certificate must not expire after that.")
         ELSE [call EXCEPT !.pc = "start",
                           !.args.not_after =
                               [kind |-> "datetime", value |-> 2 * call.request.not_after]]
    /\ UNCHANGED <<acmeVars, accountVars, probe, profile, ca>>

\* acme_issue_certificate: not_after of the order if set (0: not set), else
\* the default validity from now
AcmeExpires ==
    /\ call.pc = "acme"
    /\ call' = [call EXCEPT
                  !.pc = "start",
                  !.args.not_after =
                      [kind |-> "datetime",
                       value |-> IF call.request.not_after # 0
                                 THEN call.request.not_after
                                 ELSE now + ACME_DEFAULT_CERT_VALIDITY]]
    /\ UNCHANGED <<acmeVars, accountVars, probe, profile, ca>>

\* signing requests from the admin form (a date), from a direct caller of
\* create_cert (nothing, a timedelta or a datetime) and from ACME (an order
\* with or without not_after), for a CA that expires before MaxNotAfter
InitExpiry ==
    /\ AcmeAtRest
    /\ \E expires \in {1, MaxNotAfter} :
          profile = [ProfileWith(<<>>, TRUE) EXCEPT !.expires = expires]
    /\ ca \in [not_after : 1..(MaxNotAfter - 1), enabled : {TRUE},
             extensions_for_certificate : {CaExtensions}]
    /\ \E request \in
              [via : {"direct"}, not_after : {0}]
              \cup [via : {"form"}, not_after : 0..(MaxNotAfter \div 2)]
              \cup [via : {"acme"}, not_after : 0..MaxNotAfter],
          not_after \in
              {NoNotAfter} \cup [kind : {"timedelta", "datetime"}, value : 1..MaxNotAfter] :
          /\ request.via # "direct" => not_after = NoNotAfter
          /\ call = [NewCall([subject |-> SubjectWithCn,
                              extensions |-> <<>>,
                              allow_unrecognized_extensions |-> FALSE,
                              add_crl_url |-> "None",
                              add_ocsp_url |-> "None",
                              add_issuer_url |-> "None",
                              add_issuer_alternative_name |-> "None",
                              not_after |-> not_after])
                       EXCEPT !.request = request,
                              !.pc = IF request.via = "direct" THEN "start" ELSE request.via]

NextExpiry == CleanForm \/ AcmeExpires \/ NextProfile

SpecExpiry == InitExpiry /\ [][NextExpiry]_vars

\* the time the request asks the certificate to expire at
RequestedNotAfter ==
    IF call.request.via = "form" THEN 2 * call.request.not_after
    ELSE IF call.request.via = "acme"
    THEN (IF call.request.not_after # 0 THEN call.request.not_after
          ELSE now + ACME_DEFAULT_CERT_VALIDITY)
    ELSE IF call.args.not_after.kind = "datetime" THEN call.args.not_after.value
    ELSE IF call.args.not_after.kind = "timedelta" THEN now + call.args.not_after.value
    ELSE now + profile.expires

----------------------------------------------------------------------------
(* Profile.create_cert: the critical flag of authorityInformationAccess    *)

\* the CA has an authorityInformationAccess extension and create_cert has
\* arrived at one
MergedWithCa ==
    /\ AfterUpdateFromCa
    /\ Has(ca.extensions_for_certificate, AUTHORITY_INFORMATION_ACCESS)
    /\ OfOid(call.certificate_extensions, AUTHORITY_INFORMATION_ACCESS) # <<>>

ProducedCritical ==
    OfOid(call.certificate_extensions, AUTHORITY_INFORMATION_ACCESS)[1].critical

CaCritical == Get(ca.extensions_for_certificate, AUTHORITY_INFORMATION_ACCESS).critical

\* C27 as stated: whenever the CA has an authorityInformationAccess
\* extension and create_cert produces a merged one, its critical flag is
\* that of the extension of the CA, also when caller or profile supplied an
\* extension with another critical flag.
C27_CriticalIsThatOfCa ==
    MergedWithCa => ProducedCritical = CaCritical

\* C27 amended: the critical flag of the merged extension is that of the
\* extension of the working set (caller or profile) when there is one, and
\* that of the extension of the CA only when there is none.
C27_CriticalIsThatOfWorkingSet ==
    MergedWithCa =>
        ProducedCritical =
            IF Resolved(AUTHORITY_INFORMATION_ACCESS) # <<>>
            THEN Resolved(AUTHORITY_INFORMATION_ACCESS)[1].critical
            ELSE CaCritical

\* a certificate whose authorityInformationAccess has the access
\* descriptions of caller and CA and is critical as the caller's, not as the
\* CA's
C27_Witness ==
    /\ call.pc = "done"
    /\ Has(CallerDict, AUTHORITY_INFORMATION_ACCESS)
    /\ Get(CallerDict, AUTHORITY_INFORMATION_ACCESS).critical
    /\ ~ProfileUnsets(AUTHORITY_INFORMATION_ACCESS)
    /\ Has(ca.extensions_for_certificate, AUTHORITY_INFORMATION_ACCESS)
    /\ ~CaCritical
    /\ \E i \in 1..Len(ProducedAccessDescriptions) :
          ProducedAccessDescriptions[i].value = "ca"
    /\ OfOid(call.certificate.extensions, AUTHORITY_INFORMATION_ACCESS)[1].critical

----------------------------------------------------------------------------
(* merge_x509_names as a function of two names                             *)

MaxAttributes == 2

\* the attributes of the names of the tests: two values per type
NameAttributes ==
    {NameAttribute(COUNTRY_NAME, "AT"), NameAttribute(COUNTRY_NAME, "US"),
     NameAttribute(ORGANIZATIONAL_UNIT_NAME, "Example Org Unit"),
     NameAttribute(ORGANIZATIONAL_UNIT_NAME, "Other Org Unit"),
     NameAttribute(COMMON_NAME, "example.com"),
     NameAttribute(COMMON_NAME, "example.net")}

\* a call of merge_x509_names
Merge ==
    /\ call.pc = "merge"
    /\ call' = [call EXCEPT !.pc = "merged",
                            !.merged = merge_x509_names(call.base, call.update)]
    /\ UNCHANGED <<acmeVars, accountVars, probe, profile, ca>>

\* every pair of names of at most MaxAttributes attributes, in any order
InitMerge ==
    /\ AcmeAtRest
    /\ profile = NoObject
    /\ ca = NoObject
    /\ \E base \in SeqsUpTo(NameAttributes, MaxAttributes),
          update \in SeqsUpTo(NameAttributes, MaxAttributes) :
          call = [pc |-> "merge", base |-> Name(base), update |-> Name(update),
                  merged |-> NoneName]

SpecMerge == InitMerge /\ [][Merge]_vars

\* the position of a type in the default order
OrderIndex(oid) ==
    CHOOSE i \in 1..Len(CA_DEFAULT_NAME_ORDER) : CA_DEFAULT_NAME_ORDER[i] = oid

InCanonicalOrder(name) ==
    \A i, j \in 1..Len(name.attributes) :
        i < j => OrderIndex(name.attributes[i].oid) <= OrderIndex(name.attributes[j].oid)

\* the names that have the attributes of a name in any order
Reorderings(name) ==
    {Name([i \in 1..Len(name.attributes) |-> name.attributes[p[i]]]) :
        p \in Permutations(1..Len(name.attributes))}

\* no type occurs twice in the name
SingleValued(name) ==
    \A i, j \in 1..Len(name.attributes) :
        name.attributes[i].oid = name.attributes[j].oid => i = j

\* how often an attribute occurs in a name
Occurrences(name, a) ==
    Cardinality({i \in 1..Len(name.attributes) : name.attributes[i] = a})

RECURSIVE Dedupe(_)
Dedupe(s) ==
    IF s = <<>> THEN <<>>
    ELSE LET front == Dedupe(SubSeq(s, 1, Len(s) - 1))
             last == s[Len(s)]
         IN  IF \E i \in 1..Len(front) : front[i] = last
             THEN front ELSE Append(front, last)

OrgUnits(name) == AttributesForOid(name, ORGANIZATIONAL_UNIT_NAME)

\* C24: when update has organizational-unit values, those of the result are
\* the values of base followed by those of update with exact duplicates
\* removed; merging a name with itself duplicates no organizational-unit
\* value.
C24_OrgUnitsAppended ==
    call.pc = "merged" =>
        /\ OrgUnits(call.update) # <<>> =>
              OrgUnits(call.merged) = Dedupe(OrgUnits(call.base) \o OrgUnits(call.update))
        /\ call.base = call.update => OrgUnits(call.merged) = Dedupe(OrgUnits(call.base))

\* C24, amended: when update has organizational-unit values, those of the
\* result are exactly the values of update, in the order of update, and none
\* of base; when update has none, they are those of base; merging a name
\* with itself gives the organizational-unit values of that name.
C24_OrgUnitsReplaced ==
    call.pc = "merged" =>
        /\ OrgUnits(call.update) # <<>> => OrgUnits(call.merged) = OrgUnits(call.update)
        /\ OrgUnits(call.update) = <<>> => OrgUnits(call.merged) = OrgUnits(call.base)
        /\ call.base = call.update => OrgUnits(call.merged) = OrgUnits(call.base)

\* base and update have different organizational units and the result has
\* only that of update
C24_Witness ==
    /\ call.pc = "merged"
    /\ OrgUnits(call.base) # <<>>
    /\ OrgUnits(call.update) # <<>>
    /\ \A i \in 1..Len(OrgUnits(call.base)) :
          \A j \in 1..Len(OrgUnits(call.update)) :
              OrgUnits(call.base)[i] # OrgUnits(call.update)[j]
    /\ OrgUnits(call.merged) = OrgUnits(call.update)

----------------------------------------------------------------------------
(* acme_cleanup.  Time is counted in half days here; orderExpires maps     *)
(* the primary key of every order in the database to its AcmeOrder.expires *)

MaxOrders == 2

\* timedelta(days=1)
CleanupGrace == 2

\* expires__lt=threshold, but with the threshold itself included
ExpiresLte(expires, threshold) == expires <= threshold

\* expires__lt=threshold
ExpiresLt(expires, threshold) == expires < threshold

\* the periodic task is due
CallCleanup(w) ==
    /\ pc[w] = "idle"
    /\ pc' = [pc EXCEPT ![w] = "cleanup"]
    /\ UNCHANGED <<accountVars, profileVars, probe, acmeEnabled, now, orderExpires,
                   db, tx, arg, loc, outcome>>

acme_cleanup(w) ==
    /\ pc[w] = "cleanup"
    /\ IF ~acmeEnabled
       THEN /\ Finish(w, "cleanup", "acme disabled")
            /\ UNCHANGED orderExpires
       ELSE LET threshold == now - CleanupGrace
                deleted == {o \in DOMAIN orderExpires :
                               ExpiresLt(orderExpires[o], threshold)}
            IN  /\ orderExpires' =
                      [o \in DOMAIN orderExpires \ deleted |-> orderExpires[o]]
                /\ Finish(w, "cleanup",
                          IF deleted = {} THEN "nothing deleted" ELSE "deleted")
    /\ UNCHANGED <<accountVars, profileVars, probe, acmeEnabled, now, db, tx>>

\* MaxOrders orders that expired up to a half day more than the grace period
\* ago, or that expire only at MaxNow
InitCleanup ==
    /\ acmeEnabled \in BOOLEAN
    /\ now = 0
    /\ orderExpires \in [1..MaxOrders -> (0 - CleanupGrace - 1)..MaxNow]
    /\ db = [k \in Keys |->
                IF k = AccountKey THEN STATUS_VALID
                ELSE IF k = AcmeCertKey \/ k[1] = "certificate" THEN ROW_ABSENT
                ELSE STATUS_PENDING]
    /\ tx = [w \in Workers |-> NoTx]
    /\ pc = [w \in Workers |-> "idle"]
    /\ arg = [w \in Workers |-> NoSuchPk]
    /\ loc = [w \in Workers |-> NoLoc]
    /\ outcome = NoOutcome
    /\ account = AccountFixture
    /\ response = NoResponse
    /\ profile = NoObject
    /\ ca = NoObject
    /\ call = NoCall
    /\ probe = NoProbe

NextCleanup ==
    \/ \E w \in Workers : CallCleanup(w)
    \/ \E w \in Workers : acme_cleanup(w)
    \/ Tick
    \/ Reconfigure

SpecCleanup == InitCleanup /\ [][NextCleanup]_vars

\* a run of acme_cleanup ends with this step
CleanupStep == \E w \in Workers : pc[w] = "cleanup" /\ pc'[w] = "idle"

\* the orders a run at time t has to keep: those that did not expire more
\* than CleanupGrace before t
Kept(orders, t) ==
    [o \in {k \in DOMAIN orders : orders[k] >= t - CleanupGrace} |-> orders[o]]

\* C25: acme_cleanup deletes exactly the orders whose expiry lies more than
\* 24 hours before the current time and leaves every other order unchanged;
\* a second run without time advancing changes nothing; with ACME support
\* disabled it deletes nothing; nothing else deletes or changes an order.
C25_CleanupDeletesExactlyExpired ==
    [][/\ CleanupStep /\ acmeEnabled =>
              /\ orderExpires' = Kept(orderExpires, now)
              /\ Kept(orderExpires', now') = orderExpires'
       /\ CleanupStep /\ ~acmeEnabled => orderExpires' = orderExpires
       /\ ~CleanupStep => orderExpires' = orderExpires]_vars

\* before time advanced a run deleted an order, a later run found nothing to
\* delete, and an order that expired exactly 24 hours ago is still there
C25_Witness ==
    /\ now = 0
    /\ acmeEnabled
    /\ outcome = [task |-> "cleanup", how |-> "nothing deleted"]
    /\ DOMAIN orderExpires # 1..MaxOrders
    /\ \E o \in DOMAIN orderExpires : orderExpires[o] = 0 - CleanupGrace

----------------------------------------------------------------------------
(* CertificateAuthority.enabled: the operations that select a CA or serve  *)
(* its certificates, while edit_ca enables and disables it                 *)

\* actions.CertificateAuthorityAction: the lookup of the CA named on the
\* command line
CertificateAuthorityAction(allow_disabled) == ca.enabled \/ allow_disabled

\* manage.py edit_ca with --enable ("True"), --disable ("False") or neither
EditCa(enabled) ==
    /\ CertificateAuthorityAction(TRUE)
    /\ ca' = [ca EXCEPT !.enabled = IF enabled = "None" THEN @ ELSE enabled = "True"]
    /\ UNCHANGED <<acmeVars, accountVars, probe, profile, call>>

\* a command that signs looks up its CA without allow_disabled
SignCertLookup ==
    /\ call.pc = "cli"
    /\ call' = IF CertificateAuthorityAction(FALSE)
               THEN [call EXCEPT !.pc = "start"]
               ELSE Raised(call, "Certificate authority not found.")
    /\ UNCHANGED <<acmeVars, accountVars, probe, profile, ca>>

\* CreateCertificateBaseForm.__init__: the CA of the request has to be one of
\* the choices
FormChoices ==
    /\ call.pc = "choices"
    /\ call' = IF ca.enabled
               THEN [call EXCEPT !.pc = "form"]
               ELSE Raised(call, "Select a valid choice.")
    /\ UNCHANGED <<acmeVars, accountVars, probe, profile, ca>>

\* the REST API lists the certificates of the CA
ListCertificates ==
    /\ call.pc = "api"
    /\ call' = IF ca.enabled
               THEN [call EXCEPT !.pc = "served"]
               ELSE Raised(call, "Not Found")
    /\ UNCHANGED <<acmeVars, accountVars, probe, profile, ca>>

\* one request from the command line, the admin form, the REST API, ACME or
\* a direct caller, for a CA that is enabled at first
InitEnabled ==
    /\ AcmeAtRest
    /\ profile = ProfileWith(<<>>, TRUE)
    /\ ca \in [not_after : 1..(MaxNotAfter - 1), enabled : {TRUE},
               extensions_for_certificate : {CaExtensions}]
    /\ \E request \in
              [via : {"direct", "cli", "api"}, not_after : {0}]
              \cup [via : {"choices"}, not_after : 0..(MaxNotAfter \div 2)]
              \cup [via : {"acme"}, not_after : 0..MaxNotAfter] :
          call = [NewCall([subject |-> SubjectWithCn,
                           extensions |-> <<>>,
                           allow_unrecognized_extensions |-> FALSE,
                           add_crl_url |-> "None",
                           add_ocsp_url |-> "None",
                           add_issuer_url |-> "None",
                           add_issuer_alternative_name |-> "None",
                           not_after |-> NoNotAfter])
                    EXCEPT !.request = request,
                           !.pc = IF request.via = "direct" THEN "start" ELSE request.via]

NextEnabled ==
    \/ \E enabled \in {"None", "True", "False"} : EditCa(enabled)
    \/ SignCertLookup
    \/ FormChoices
    \/ ListCertificates
    \/ NextExpiry

SpecEnabled == InitEnabled /\ [][NextEnabled]_vars

====
